---- MODULE Spec2Model ----
(***************************************************************************)
(* Policy decision engine (src/src/modules/abac/policy-engine.ts) and the  *)
(* policy administration service with its cache (PoliciesService,          *)
(* src/unnamed/part_019) of base-js981/mono.                               *)
(*                                                                         *)
(* JavaScript values are tagged records: undefined, numbers, strings       *)
(* (sequences of one-character strings, so that String(x).includes(y) and  *)
(* the lexicographic < can be computed), arrays and {$ref: ...} objects.   *)
(* Arrays are objects with identity: this.policies, the cached list and    *)
(* the list a load returns are references into `heap`.                     *)
(***************************************************************************)
EXTENDS Integers, Sequences, FiniteSets, TLC

\* ------------------------------------------------------------------------
\* JavaScript values
\* ------------------------------------------------------------------------
Undefined == [k |-> "undefined"]
Null == [k |-> "null"]
NaN == [k |-> "nan"]
Num(n) == [k |-> "number", n |-> n]
Str(s) == [k |-> "string", s |-> s]
Arr(items) == [k |-> "array", items |-> items]
Ref(path) == [k |-> "ref", path |-> path]

\* the characters used by the model, in increasing UTF-16 code unit order
CharOrder ==
    << " ", ",", "0", "1", "2", "3", "4", "5", "6", "7", "8", "9", ":",
       "A", "B", "D", "E", "G", "I", "M", "N", "O", "T", "[", "]",
       "b", "c", "d", "e", "f", "i", "j", "n", "o", "t", "u" >>

CharCode(c) == CHOOSE i \in 1..Len(CharOrder) : CharOrder[i] = c

Digits == << "0", "1", "2", "3", "4", "5", "6", "7", "8", "9" >>

IsDigit(c) == \E i \in 1..10 : Digits[i] = c

DigitValue(c) == (CHOOSE i \in 1..10 : Digits[i] = c) - 1

RECURSIVE NumberToString(_)
\* Number.prototype.toString for the non-negative integers of the model
NumberToString(n) ==
    IF n < 10 THEN << Digits[n + 1] >>
    ELSE NumberToString(n \div 10) \o << Digits[(n % 10) + 1] >>

RECURSIVE Join(_)
\* Array.prototype.join(",") over already stringified items
Join(strs) ==
    IF Len(strs) = 0 THEN << >>
    ELSE IF Len(strs) = 1 THEN strs[1]
    ELSE strs[1] \o << "," >> \o Join(Tail(strs))

RECURSIVE ToStringJS(_)
\* String(v)
ToStringJS(v) ==
    CASE v.k = "undefined" -> << "u", "n", "d", "e", "f", "i", "n", "e", "d" >>
      [] v.k = "nan" -> << "N", "a", "N" >>
      [] v.k = "number" -> NumberToString(v.n)
      [] v.k = "string" -> v.s
      [] v.k = "array" ->
            Join([i \in 1..Len(v.items) |->
                    IF v.items[i].k = "undefined" THEN << >>
                    ELSE ToStringJS(v.items[i])])
      [] v.k = "ref" ->
            << "[", "o", "b", "j", "e", "c", "t", " ",
               "O", "b", "j", "e", "c", "t", "]" >>

\* String.prototype.includes
Includes(hay, needle) ==
    \E i \in 0..(Len(hay) - Len(needle)) :
        \A j \in 1..Len(needle) : hay[i + j] = needle[j]

RECURSIVE DigitsToNat(_)
DigitsToNat(s) ==
    IF Len(s) = 0 THEN 0
    ELSE DigitsToNat(SubSeq(s, 1, Len(s) - 1)) * 10 + DigitValue(s[Len(s)])

\* ToPrimitive: arrays and plain objects become their string form
ToPrimitive(v) ==
    IF v.k \in {"array", "ref"} THEN Str(ToStringJS(v)) ELSE v

\* ToNumber of a primitive: a record with k = "number" or NaN
ToNumber(v) ==
    CASE v.k = "number" -> v
      [] v.k = "string" ->
            IF \A i \in 1..Len(v.s) : IsDigit(v.s[i])
            THEN Num(DigitsToNat(v.s)) ELSE NaN
      [] OTHER -> NaN

RECURSIVE StringLess(_, _)
\* lexicographic order of code units: a < b
StringLess(a, b) ==
    IF Len(b) = 0 THEN FALSE
    ELSE IF Len(a) = 0 THEN TRUE
    ELSE IF a[1] # b[1] THEN CharCode(a[1]) < CharCode(b[1])
    ELSE StringLess(Tail(a), Tail(b))

\* the relational operator a < b
LessJS(a, b) ==
    LET pa == ToPrimitive(a)
        pb == ToPrimitive(b)
    IN  IF pa.k = "string" /\ pb.k = "string" THEN StringLess(pa.s, pb.s)
        ELSE LET na == ToNumber(pa)
                 nb == ToNumber(pb)
             IN  na.k = "number" /\ nb.k = "number" /\ na.n < nb.n

\* a === b; an array or object of a policy value is never the same object as
\* a context value (context attributes of the model are primitives)
StrictEquals(a, b) ==
    /\ a.k = b.k
    /\ a.k \in {"undefined", "number", "string"}
    /\ a = b

\* Array.prototype.includes (SameValueZero)
ArrayIncludes(items, v) ==
    \E i \in 1..Len(items) : StrictEquals(items[i], v) \/ (v.k = "nan" /\ items[i].k = "nan")

\* ------------------------------------------------------------------------
\* PolicyEngine: condition evaluation (policy-engine.ts)
\* ------------------------------------------------------------------------
\* A section of a PolicyContext is Undefined or an object with attributes.
Obj(attrs) == [k |-> "object", attrs |-> attrs]

\* the pseudo-value of an expression that raised a TypeError
Thrown == [k |-> "throw"]

\* obj[attr] on an object: a missing key reads as undefined
GetProp(obj, attr) ==
    IF attr \in DOMAIN obj.attrs THEN obj.attrs[attr] ELSE Undefined

\* section[attr]: a TypeError when the section itself is undefined
SectionGet(section, attr) ==
    IF section.k = "undefined" THEN Thrown ELSE GetProp(section, attr)

\* section?.[attr]
OptionalGet(section, attr) ==
    IF section.k = "undefined" THEN Undefined ELSE GetProp(section, attr)

\* const [a, b] = path.split('.'): paths are kept as their segments; a
\* missing second segment is undefined, which indexes the key "undefined"
FirstSegment(path) == path[1]

SecondSegment(path) == IF Len(path) >= 2 THEN path[2] ELSE "undefined"

Operators == {"equals", "not_equals", "greater", "less", "in", "contains"}

\* a compare that lets an operator it does not know, or an in over a
\* non-array, through
compareFailOpen(actual, operator, expected) ==
    CASE operator = "equals" -> StrictEquals(actual, expected)
      [] operator = "not_equals" -> ~StrictEquals(actual, expected)
      [] operator = "greater" -> LessJS(expected, actual)
      [] operator = "less" -> LessJS(actual, expected)
      [] operator = "in" ->
            expected.k # "array" \/ ArrayIncludes(expected.items, actual)
      [] operator = "contains" ->
            Includes(ToStringJS(actual), ToStringJS(expected))
      [] OTHER -> TRUE

compare(actual, operator, expected) ==
    CASE operator = "equals" -> StrictEquals(actual, expected)
      [] operator = "not_equals" -> ~StrictEquals(actual, expected)
      [] operator = "greater" -> LessJS(expected, actual)
      [] operator = "less" -> LessJS(actual, expected)
      [] operator = "in" ->
            expected.k = "array" /\ ArrayIncludes(expected.items, actual)
      [] operator = "contains" ->
            Includes(ToStringJS(actual), ToStringJS(expected))
      [] OTHER -> FALSE

\* a resolveRef that looks every reference up in the subject section
resolveRefInSubject(value, context) ==
    IF value.k = "ref"
    THEN SectionGet(context.subject, SecondSegment(value.path))
    ELSE value

resolveRef(value, context) ==
    IF value.k = "ref"
    THEN LET ctx == FirstSegment(value.path)
             attr == SecondSegment(value.path)
         IN  CASE ctx = "subject" -> SectionGet(context.subject, attr)
               [] ctx = "resource" -> OptionalGet(context.resource, attr)
               [] ctx = "environment" -> SectionGet(context.environment, attr)
               [] ctx = "action" -> context.action
               [] OTHER -> Undefined
    ELSE value

\* an evaluateCondition that reads an unknown namespace as undefined and
\* goes on to compare
evaluateConditionComparesUnknown(condition, context) ==
    LET contextType == FirstSegment(condition.attribute)
        attr == SecondSegment(condition.attribute)
        actualValue ==
            CASE contextType = "subject" -> SectionGet(context.subject, attr)
              [] contextType = "resource" -> OptionalGet(context.resource, attr)
              [] contextType = "environment" -> SectionGet(context.environment, attr)
              [] contextType = "action" -> context.action
              [] OTHER -> Undefined
        expectedValue == resolveRef(condition.value, context)
    IN  IF actualValue.k = "throw" THEN "throw"
        ELSE IF expectedValue.k = "throw" THEN "throw"
        ELSE IF compare(actualValue, condition.operator, expectedValue)
             THEN "true" ELSE "false"

\* the result is "true", "false" or "throw" (a TypeError leaves the method)
evaluateCondition(condition, context) ==
    LET contextType == FirstSegment(condition.attribute)
        attr == SecondSegment(condition.attribute)
        known == contextType \in {"subject", "resource", "environment", "action"}
        actualValue ==
            CASE contextType = "subject" -> SectionGet(context.subject, attr)
              [] contextType = "resource" -> OptionalGet(context.resource, attr)
              [] contextType = "environment" -> SectionGet(context.environment, attr)
              [] contextType = "action" -> context.action
              [] OTHER -> Undefined
        expectedValue == resolveRef(condition.value, context)
    IN  IF ~known THEN "false"
        ELSE IF actualValue.k = "throw" THEN "throw"
        ELSE IF expectedValue.k = "throw" THEN "throw"
        ELSE IF compare(actualValue, condition.operator, expectedValue)
             THEN "true" ELSE "false"

RECURSIVE checkConditionsFrom(_, _, _)
checkConditionsFrom(conditions, context, i) ==
    IF i > Len(conditions) THEN "true"
    ELSE LET r == evaluateCondition(conditions[i], context)
         IN  IF r = "true" THEN checkConditionsFrom(conditions, context, i + 1)
             ELSE r

\* short-circuit AND over policy.conditions, in order
checkConditions(policy, context) ==
    checkConditionsFrom(policy.conditions, context, 1)

RECURSIVE evaluateFromLastMatch(_, _, _)
\* a loop that keeps going after a match and so returns the last match
evaluateFromLastMatch(plist, context, i) ==
    IF i > Len(plist) THEN 0
    ELSE LET matches == checkConditions(plist[i], context)
             later == evaluateFromLastMatch(plist, context, i + 1)
         IN  IF matches = "throw" \/ later = -1 THEN -1
             ELSE IF later > 0 THEN later
             ELSE IF matches = "true" THEN i
             ELSE 0

RECURSIVE evaluateFrom(_, _, _)
\* the for loop of evaluate from position i: the index of the policy that is
\* returned, 0 when the loop falls through, -1 when checkConditions threw
evaluateFrom(plist, context, i) ==
    IF i > Len(plist) THEN 0
    ELSE LET matches == checkConditions(plist[i], context)
         IN  IF matches = "throw" THEN -1
             ELSE IF matches = "true" THEN i
             ELSE evaluateFrom(plist, context, i + 1)

matchIndex(plist, context) == evaluateFrom(plist, context, 1)

Rejected == [status |-> "rejected"]

Decision(effect, reason) ==
    [status |-> "returned", effect |-> effect, reason |-> reason]

\* an evaluate that fails open when no policy matches
evaluateFailOpen(plist, context) ==
    LET i == matchIndex(plist, context)
    IN  IF i = -1 THEN Rejected
        ELSE IF i = 0 THEN Decision("allow", "No policy matched")
        ELSE Decision(plist[i].effect, plist[i].name)

\* PolicyEngine.evaluate over the list this.policies refers to
evaluate(plist, context) ==
    LET i == matchIndex(plist, context)
    IN  IF i = -1 THEN Rejected
        ELSE IF i = 0 THEN Decision("deny", "No policy matched")
        ELSE Decision(plist[i].effect, plist[i].name)

\* ------------------------------------------------------------------------
\* Bounds and inputs
\* ------------------------------------------------------------------------
\* policies created in one behaviour (ids are generated, never reused)
MaxCreates == 2
\* addPolicy calls in one behaviour
MaxAdds == 1
\* Date.now() advances in steps of TickMs up to MaxNow
TickMs == 30000
MaxNow == 60000
\* the length of the policy lists evaluate is applied to
MaxListLen == 2

\* create calls suspended between their name check and their insert
MaxOverlap == 2

\* private cacheTTL = 60000
cacheTTL == 60000

Rule(attribute, operator, value, order) ==
    [attribute |-> attribute, operator |-> operator, value |-> value, order |-> order]

ADMIN == << "A", "D", "M", "I", "N" >>
GET == << "G", "E", "T" >>
U1 == << "u", "1" >>
U2 == << "u", "2" >>
TenantA == << "A" >>
TenantB == << "B" >>

\* CreatePolicyDto bodies: the seeded 'Admin Full Access' and 'Owner Edit
\* Access' conditions, and the controller's 'Tenant Isolation' example
\* extended by a rule on the client address, its rules sent out of order
PolicyInputs ==
    { [name |-> "Admin Full Access", effect |-> "allow", enabled |-> TRUE,
       rules |-> << Rule(<< "subject", "role" >>, "in", Arr(<< Str(ADMIN) >>), 0) >>],
      [name |-> "Owner Edit Access", effect |-> "allow", enabled |-> TRUE,
       rules |-> << Rule(<< "subject", "id" >>, "equals",
                         Ref(<< "resource", "ownerId" >>), 0) >>],
      [name |-> "Tenant Isolation", effect |-> "allow", enabled |-> TRUE,
       rules |-> << Rule(<< "environment", "ipAddress" >>, "not_equals", Str(U1), 1),
                    Rule(<< "subject", "tenantId" >>, "equals",
                         Ref(<< "resource", "tenantId" >>), 0) >>] }

\* the bodies posted to POST /policies while policies are administered
CreateInputs ==
    { dto \in PolicyInputs : dto.name \in {"Admin Full Access", "Tenant Isolation"} }

\* bodies of PATCH /policies/:id
UpdateInputs == { [enabled |-> FALSE], [enabled |-> TRUE] }

\* policies registered in code through addPolicy
DefaultPolicies ==
    { [id |-> 0, name |-> "Custom Policy", effect |-> "deny",
       conditions |-> << [attribute |-> << "action" >>,
                          operator |-> "equals", value |-> Str(GET)] >>] }

Context(subject, resource, environment) ==
    [subject |-> subject, resource |-> resource, action |-> Str(GET),
     environment |-> environment]

Env == Obj([ipAddress |-> Str(U2)])

Subject(id, role, tenantId) == Obj([id |-> id, role |-> role, tenantId |-> tenantId])

Resource(ownerId, tenantId) == Obj([ownerId |-> ownerId, tenantId |-> tenantId])

\* decision contexts handed to evaluate: ownership cases, tenancy cases, and
\* contexts that lack the subject or the environment section
Contexts ==
    { Context(Subject(i, Undefined, Undefined), res, Env) :
        i \in {Undefined, Str(U1)},
        res \in {Undefined} \cup
                { Resource(o, Undefined) : o \in {Undefined, Str(U1), Str(U2)} } }
    \cup
    { Context(Subject(Str(U1), r, Str(st)), Resource(Str(U1), rt), Env) :
        r \in {Undefined, Str(ADMIN)},
        st \in {TenantA, TenantB},
        rt \in {Undefined, Str(TenantA), Str(TenantB)} }
    \cup
    { Context(Undefined, Resource(Str(U1), Undefined), Env),
      Context(Subject(Str(U1), Str(ADMIN), Str(TenantA)),
              Resource(Str(U1), Str(TenantA)), Undefined) }

\* the requests evaluated while policies are administered
RequestContexts ==
    { Context(Subject(Str(U1), Str(ADMIN), Str(TenantA)),
              Resource(Str(U1), Str(TenantA)), Env),
      Context(Subject(Str(U1), Undefined, Str(TenantA)),
              Resource(Str(U2), Str(TenantB)), Env) }

\* a context that conforms to the PolicyContext type: subject and environment
\* are required, resource is optional
WellFormed(context) ==
    context.subject.k = "object" /\ context.environment.k = "object"

\* ------------------------------------------------------------------------
\* State
\* ------------------------------------------------------------------------
VARIABLES
    store,        \* policies table with its rules: id -> row
    nextId,       \* the next generated policy id
    cache,        \* PoliciesService.cache: NoEntry or the 'enabled_policies' entry
    heap,         \* array objects: reference -> sequence of Policy
    policies,     \* PolicyEngine.policies: a reference into heap
    initialised,  \* onModuleInit has run: the application serves requests
    now,          \* Date.now()
    registered,   \* history: the policies passed to addPolicy, in call order
    pendingWrite, \* history: a successful write no load has followed yet
    prevLoad,     \* history: the latest loadEnabledPolicies call that returned
    last,         \* history: the latest operation and what it observed
    loader,       \* a loadEnabledPolicies call suspended at its await
    writer,       \* a create/update/delete call suspended at its await
    tenants,      \* tenants table: a sequence of rows
    resolutionMode, \* TenantResolverService.resolutionMode
    request,      \* the request in the pipeline, with request.user and request.tenant
    auditLog      \* audit_logs table: the records written, in order

vars == << store, nextId, cache, heap, policies, initialised, now, registered,
           pendingWrite, prevLoad, last, loader, writer, tenants,
           resolutionMode, request, auditLog >>

\* the state of the request pipeline: tenant resolution and audit
requestVars == << tenants, resolutionMode, request, auditLog >>

NoEntry == [k |-> "empty"]

\* no call is suspended
Idle == [pc |-> "idle"]

None == [k |-> "none"]

\* a reference not in use
NewRef(h) == Len(h) + 1

Alloc(h, items) == Append(h, items)

RECURSIVE Dedup(_)
Dedup(refs) ==
    IF Len(refs) = 0 THEN << >>
    ELSE LET front == Dedup(SubSeq(refs, 1, Len(refs) - 1))
             x == refs[Len(refs)]
         IN  IF \E i \in 1..Len(front) : front[i] = x THEN front
             ELSE Append(front, x)

\* The references held by the engine, the cache and the recorded results.
\* Arrays nothing refers to any more are dropped and the rest are numbered in
\* this order, so that a state does not depend on allocation history.
Roots(p, c, pl, l) ==
    Dedup(<< p >> \o (IF c = NoEntry THEN << >> ELSE << c.policies >>)
                 \o (IF pl = None THEN << >> ELSE << pl.ref >>)
                 \o (IF "result" \in DOMAIN l THEN << l.result >> ELSE << >>))

Commit(p, c, pl, l, h) ==
    LET order == Roots(p, c, pl, l)
        Pos(x) == CHOOSE i \in 1..Len(order) : order[i] = x
    IN  /\ policies' = Pos(p)
        /\ cache' = IF c = NoEntry THEN c ELSE [c EXCEPT !.policies = Pos(@)]
        /\ prevLoad' = IF pl = None THEN pl ELSE [pl EXCEPT !.ref = Pos(@)]
        /\ last' = IF "result" \in DOMAIN l THEN [l EXCEPT !.result = Pos(@)] ELSE l
        /\ heap' = [i \in 1..Len(order) |-> h[order[i]]]

\* a row of the tenants table (migration.sql, CREATE TABLE "tenants")
Tenant(id, slug, domain, isActive, deletedAt) ==
    [id |-> id, slug |-> slug, name |-> slug, domain |-> domain,
     isActive |-> isActive, deletedAt |-> deletedAt]

\* the tenants table after prisma/seed.ts: the default tenant
SeededTenants ==
    << Tenant(Str(<< "t", "0" >>), Str(<< "d", "e", "f", "a", "u", "l", "t" >>),
              Null, TRUE, Null) >>

\* no request is in the pipeline and nothing has been audited; the resolution
\* mode is the default of the TENANT_RESOLUTION_MODE setting
PipelineIdle ==
    /\ tenants = SeededTenants
    /\ resolutionMode = "jwt"
    /\ request = None
    /\ auditLog = << >>

\* the policies table when the application starts: empty, or holding the
\* seeded 'Admin Full Access' policy (prisma/seed.ts)
InitialStores ==
    { << >> } \cup
    { << [id |-> 1, name |-> dto.name, effect |-> dto.effect, enabled |-> TRUE,
          tenantId |-> "null", rules |-> dto.rules] >> :
        dto \in { d \in CreateInputs : d.name = "Admin Full Access" } }

\* the policy engine and the policies service after construction
Constructed ==
    /\ store \in InitialStores
    /\ nextId = Len(store) + 1
    /\ cache = NoEntry
    /\ heap = << << >> >>
    /\ policies = 1
    /\ initialised = FALSE
    /\ now = 0
    /\ registered = << >>
    /\ pendingWrite = None
    /\ prevLoad = None
    /\ last = [op |-> "constructed"]
    /\ loader = Idle
    /\ writer = Idle

Init == Constructed /\ PipelineIdle

\* ------------------------------------------------------------------------
\* PoliciesService (src/unnamed/part_019)
\* ------------------------------------------------------------------------
RECURSIVE Ascending(_)
\* the ids of a set in the store's natural (insertion) order
Ascending(ids) ==
    IF ids = {} THEN << >>
    ELSE LET m == CHOOSE i \in ids : \A j \in ids : i <= j
         IN  << m >> \o Ascending(ids \ {m})

RECURSIVE orderByOrderAsc(_)
\* rules: { orderBy: { order: 'asc' } }, rows of equal order in insertion order
orderByOrderAsc(rules) ==
    IF Len(rules) = 0 THEN << >>
    ELSE LET m == CHOOSE i \in 1..Len(rules) :
                    /\ \A j \in 1..Len(rules) : rules[i].order <= rules[j].order
                    /\ \A j \in 1..(i - 1) : rules[j].order # rules[i].order
             rest == [j \in 1..(Len(rules) - 1) |->
                        IF j < m THEN rules[j] ELSE rules[j + 1]]
         IN  << rules[m] >> \o orderByOrderAsc(rest)

\* prisma.policy.findMany({ where: { enabled: true }, include: { rules } })
findManyEnabled(st) ==
    LET ids == Ascending({ i \in DOMAIN st : st[i].enabled })
    IN  [n \in 1..Len(ids) |->
            [st[ids[n]] EXCEPT !.rules = orderByOrderAsc(st[ids[n]].rules)]]

\* the conversion of a stored policy and its rule rows to the Policy type
convertPolicy(row) ==
    [id |-> row.id, name |-> row.name, effect |-> row.effect,
     conditions |-> [n \in 1..Len(row.rules) |->
                        [attribute |-> row.rules[n].attribute,
                         operator |-> row.rules[n].operator,
                         value |-> row.rules[n].value]]]

\* a conversion that is cut short: the first row found is left out
convertedPoliciesPartial(st) ==
    LET rows == findManyEnabled(st)
    IN  IF Len(rows) = 0 THEN << >>
        ELSE [n \in 1..(Len(rows) - 1) |-> convertPolicy(rows[n + 1])]

convertedPolicies(st) ==
    LET rows == findManyEnabled(st)
    IN  [n \in 1..Len(rows) |-> convertPolicy(rows[n])]

\* a freshness test with the comparison inverted
cacheHitInverted(c, t) == c # NoEntry /\ t - c.timestamp >= cacheTTL

\* cached && Date.now() - cached.timestamp < this.cacheTTL
cacheHit(c, t) == c # NoEntry /\ t - c.timestamp < cacheTTL

\* an invalidation that leaves the entry in place
invalidateCacheKeepsEntry(c) == c

\* this.cache.clear()
invalidateCache(c) == NoEntry

\* One call of loadEnabledPolicies at time t; fail: the store read rejects.
\* The outcome: whether it returned, the list it returned, whether it read
\* the store, and the cache and heap it leaves.
loadEnabledPolicies(c, h, st, t, fail) ==
    IF cacheHit(c, t)
    THEN [returned |-> TRUE, result |-> c.policies, readStore |-> FALSE,
          cache |-> c, heap |-> h]
    ELSE IF fail
    THEN [returned |-> FALSE, result |-> 0, readStore |-> TRUE,
          cache |-> c, heap |-> h]
    ELSE [returned |-> TRUE, result |-> NewRef(h), readStore |-> TRUE,
          cache |-> [policies |-> NewRef(h), timestamp |-> t],
          heap |-> Alloc(h, convertedPolicies(st))]

\* what a call of loadEnabledPolicies observed: whether a successful write
\* preceded it with no load in between, and how it relates to the previous
\* call that returned
LoadRecord(r) ==
    [returned |-> r.returned, readStore |-> r.readStore,
     afterWrite |-> pendingWrite,
     prev |-> IF prevLoad = None \/ ~r.returned THEN None
              ELSE [at |-> prevLoad.at, timestamp |-> prevLoad.timestamp,
                    invalidated |-> prevLoad.invalidated,
                    sameList |-> r.result = prevLoad.ref,
                    sameItems |-> r.heap[r.result] = r.heap[prevLoad.ref]]]

NextPrevLoad(r) ==
    IF r.returned
    THEN [ref |-> r.result, at |-> now, timestamp |-> r.cache.timestamp,
          invalidated |-> FALSE]
    ELSE prevLoad

\* a direct call of PoliciesService.loadEnabledPolicies
LoadEnabledPolicies ==
    \E fail \in BOOLEAN :
        LET r == loadEnabledPolicies(cache, heap, store, now, fail)
        IN  /\ (fail => ~cacheHit(cache, now))
            /\ pendingWrite' = None
            /\ Commit(policies, r.cache, NextPrevLoad(r),
                      IF r.returned
                      THEN [op |-> "loadEnabledPolicies", result |-> r.result,
                            load |-> LoadRecord(r)]
                      ELSE [op |-> "loadEnabledPolicies", load |-> LoadRecord(r)],
                      r.heap)
            /\ initialised
            /\ UNCHANGED << store, nextId, initialised, now, registered, loader,
                            writer >>
            /\ UNCHANGED requestVars

\* a name check that never finds a row
findFirstNone(st, name, tenantId) == {}

\* findFirst({ where: { name, tenantId: tenantId || null } })
findFirstByName(st, name, tenantId) ==
    { i \in DOMAIN st : st[i].name = name /\ st[i].tenantId = tenantId }

\* findOne(id): the row, or NotFoundException
findOne(st, id) == id \in DOMAIN st

\* a write that threw before it changed anything
Rejects ==
    /\ Commit(policies, cache, prevLoad, [op |-> "write", ok |-> FALSE], heap)
    /\ UNCHANGED << store, nextId, initialised, now, registered, pendingWrite,
                    loader, writer >>
    /\ UNCHANGED requestVars

\* await this.invalidateCache(), then the write returns
Returns ==
    /\ pendingWrite' = [hadEntry |-> cache # NoEntry]
    /\ Commit(policies, invalidateCache(cache), None,
              [op |-> "write", ok |-> TRUE], heap)
    /\ UNCHANGED << initialised, now, registered, loader, writer >>
    /\ UNCHANGED requestVars

\* PoliciesService.create(createPolicyDto, rules) as the controller calls it:
\* no tenantId argument, so the name is looked up in the null scope; the row
\* takes its columns from the dto, which carries no tenantId either
Create ==
    \E dto \in CreateInputs :
        /\ initialised
        /\ IF findFirstByName(store, dto.name, "null") # {}
           THEN Rejects
           ELSE /\ nextId <= MaxCreates
                /\ store' = [i \in DOMAIN store \cup {nextId} |->
                               IF i = nextId
                               THEN [id |-> nextId, name |-> dto.name,
                                     effect |-> dto.effect, enabled |-> dto.enabled,
                                     tenantId |-> "null", rules |-> dto.rules]
                               ELSE store[i]]
                /\ nextId' = nextId + 1
                /\ Returns

\* PoliciesService.update(id, data)
Update ==
    \E id \in 1..MaxCreates, data \in UpdateInputs :
        /\ initialised
        /\ IF ~findOne(store, id) THEN Rejects
           ELSE /\ store' = [store EXCEPT ![id] =
                               [f \in DOMAIN store[id] |->
                                   IF f \in DOMAIN data THEN data[f] ELSE store[id][f]]]
                /\ UNCHANGED nextId
                /\ Returns

\* PoliciesService.delete(id)
Delete ==
    \E id \in 1..MaxCreates :
        /\ initialised
        /\ IF ~findOne(store, id) THEN Rejects
           ELSE /\ store' = [i \in DOMAIN store \ {id} |-> store[i]]
                /\ UNCHANGED nextId
                /\ Returns

\* PoliciesController.reloadCache
ReloadCache ==
    /\ initialised
    /\ Commit(policies, invalidateCache(cache),
              IF prevLoad = None THEN None
              ELSE [prevLoad EXCEPT !.invalidated = TRUE],
              [op |-> "reloadCache"], heap)
    /\ UNCHANGED << store, nextId, initialised, now, registered, pendingWrite,
                    loader, writer >>
    /\ UNCHANGED requestVars

\* ------------------------------------------------------------------------
\* PolicyEngine: the policy list (policy-engine.ts)
\* ------------------------------------------------------------------------
\* dbPolicies && dbPolicies.length > 0
usesDbPolicies(r) == r.returned /\ Len(r.heap[r.result]) > 0

\* loadDefaultPolicies: this.policies = []
loadDefaultPolicies == << >>

\* PolicyEngine.loadPolicies
loadPolicies ==
    \E fail \in BOOLEAN :
        LET r == loadEnabledPolicies(cache, heap, store, now, fail)
            l == IF r.returned
                 THEN [op |-> "loadPolicies", fallback |-> ~usesDbPolicies(r),
                       result |-> r.result, load |-> LoadRecord(r)]
                 ELSE [op |-> "loadPolicies", fallback |-> TRUE,
                       load |-> LoadRecord(r)]
        IN  /\ (fail => ~cacheHit(cache, now))
            /\ pendingWrite' = None
            /\ IF usesDbPolicies(r)
               THEN Commit(r.result, r.cache, NextPrevLoad(r), l, r.heap)
               ELSE Commit(NewRef(r.heap), r.cache, NextPrevLoad(r), l,
                           Alloc(r.heap, loadDefaultPolicies))
            /\ UNCHANGED << store, nextId, now, registered, loader, writer >>
            /\ UNCHANGED requestVars

\* PolicyEngine.onModuleInit: await this.loadPolicies()
OnModuleInit ==
    /\ ~initialised
    /\ initialised' = TRUE
    /\ loadPolicies

\* a later call of the public loadPolicies
LoadPolicies ==
    /\ initialised
    /\ UNCHANGED initialised
    /\ loadPolicies

\* this.policies.unshift(policy): the policy is put before the others
unshift(h, ref, policy) == [h EXCEPT ![ref] = << policy >> \o @]

\* this.policies.push(policy)
push(h, ref, policy) == [h EXCEPT ![ref] = Append(@, policy)]

\* PolicyEngine.addPolicy(policy)
AddPolicy ==
    \E p \in DefaultPolicies :
        /\ Len(registered) < MaxAdds
        /\ registered' = Append(registered, p)
        /\ Commit(policies, cache, prevLoad, [op |-> "addPolicy"],
                  push(heap, policies, p))
        /\ UNCHANGED << store, nextId, initialised, now, pendingWrite, loader,
                        writer >>
        /\ UNCHANGED requestVars

\* PolicyEngine.evaluate(context)
EvaluateContext(context) ==
    /\ Commit(policies, cache, prevLoad,
              [op |-> "evaluate", context |-> context,
               decision |-> evaluate(heap[policies], context),
               match |-> matchIndex(heap[policies], context),
               afterReload |-> last.op = "reloadCache"],
              heap)
    /\ UNCHANGED << store, nextId, initialised, now, registered, pendingWrite,
                    loader, writer >>
    /\ UNCHANGED requestVars

Evaluate ==
    /\ initialised
    /\ \E context \in RequestContexts : EvaluateContext(context)

\* the clock advances
Tick ==
    /\ now + TickMs <= MaxNow
    /\ now' = now + TickMs
    /\ Commit(policies, cache, prevLoad, [op |-> "tick"], heap)
    /\ UNCHANGED << store, nextId, initialised, registered, pendingWrite,
                    loader, writer >>
    /\ UNCHANGED requestVars

Next ==
    \/ OnModuleInit
    \/ LoadPolicies
    \/ AddPolicy
    \/ Evaluate
    \/ Create
    \/ Update
    \/ Delete
    \/ LoadEnabledPolicies
    \/ ReloadCache
    \/ Tick

Spec == Init /\ [][Next]_vars

TypeOK ==
    /\ policies \in 1..Len(heap)
    /\ cache # NoEntry => cache.policies \in 1..Len(heap)
    /\ prevLoad # None => prevLoad.ref \in 1..Len(heap)
    /\ now \in 0..MaxNow

\* ------------------------------------------------------------------------
\* evaluate as a function of the list and the context
\* ------------------------------------------------------------------------
\* the policies a list may hold: each PolicyInputs body stored with either
\* effect and converted, and the policies registered through addPolicy
PolicyCatalogue(id) ==
    { convertPolicy([id |-> id, name |-> dto.name, effect |-> e, enabled |-> TRUE,
                     tenantId |-> "null", rules |-> orderByOrderAsc(dto.rules)]) :
        dto \in PolicyInputs, e \in {"allow", "deny"} }
    \cup DefaultPolicies

PolicyLists ==
    UNION { { plist \in [1..n -> UNION { PolicyCatalogue(i) : i \in 1..n }] :
                \A i \in 1..n : plist[i] \in PolicyCatalogue(i) } :
            n \in 0..MaxListLen }

\* the engine holds any list of up to MaxListLen policies
EvalInit ==
    /\ store = << >>
    /\ nextId = 1
    /\ cache = NoEntry
    /\ heap \in { << plist >> : plist \in PolicyLists }
    /\ policies = 1
    /\ initialised = TRUE
    /\ now = 0
    /\ registered = << >>
    /\ pendingWrite = None
    /\ prevLoad = None
    /\ last = [op |-> "constructed"]
    /\ loader = Idle
    /\ writer = Idle
    /\ PipelineIdle

EvaluateAny == \E context \in Contexts : EvaluateContext(context)

EvalNext == EvaluateAny

EvalSpec == EvalInit /\ [][EvalNext]_vars

\* ------------------------------------------------------------------------
\* Properties of evaluate (EvalSpec)
\* ------------------------------------------------------------------------
Holds(policy, context) ==
    \A j \in 1..Len(policy.conditions) :
        evaluateCondition(policy.conditions[j], context) = "true"

\* the positions of the policies all of whose conditions hold
Matching(plist, context) == { i \in 1..Len(plist) : Holds(plist[i], context) }

Evaluated == last.op = "evaluate"

\* C1: for every policy list the engine holds and every decision context
\* (subject and environment present), evaluate returns the effect and, as
\* reason, the name of the first policy in list order all of whose
\* conditions hold, and effect deny when no policy has all conditions holding.
C1_FirstMatchWins ==
    (Evaluated /\ WellFormed(last.context)) =>
        LET plist == heap[policies]
            M == Matching(plist, last.context)
        IN  /\ last.decision.status = "returned"
            /\ M = {} => last.decision.effect = "deny"
            /\ M # {} =>
                 \E i \in M :
                    /\ \A j \in M : i <= j
                    /\ last.decision.effect = plist[i].effect
                    /\ last.decision.reason = plist[i].name

\* two policies of different effect match and the earlier one decided
C1_Witness ==
    /\ Evaluated /\ WellFormed(last.context)
    /\ \E i, j \in Matching(heap[policies], last.context) :
          /\ i < j
          /\ heap[policies][i].effect # heap[policies][j].effect
          /\ last.decision.reason = heap[policies][i].name
          /\ last.decision.reason # heap[policies][j].name

OwnerCondition ==
    [attribute |-> << "subject", "id" >>, operator |-> "equals",
     value |-> Ref(<< "resource", "ownerId" >>)]

\* subject.id and resource.ownerId both resolve to the same concrete value
SameOwner(context) ==
    /\ context.subject.k = "object" /\ context.resource.k = "object"
    /\ GetProp(context.subject, "id") # Undefined
    /\ GetProp(context.subject, "id") = GetProp(context.resource, "ownerId")

\* C7: a condition subject.id equals {$ref: resource.ownerId} holds if and
\* only if both sides resolve, in that context, to the same concrete value;
\* it does not hold when either side or both are absent. Stated of a list
\* whose first policy has exactly this condition: that policy decides iff
\* the two values are the same concrete value.
C7_OwnerRefIffSameValue ==
    (/\ Evaluated
     /\ Len(heap[policies]) > 0
     /\ heap[policies][1].conditions = << OwnerCondition >>) =>
        (last.match = 1 <=> SameOwner(last.context))

TenantCondition ==
    [attribute |-> << "subject", "tenantId" >>, operator |-> "equals",
     value |-> Ref(<< "resource", "tenantId" >>)]

HasTenantCondition(policy) ==
    \E j \in 1..Len(policy.conditions) : policy.conditions[j] = TenantCondition

\* subject.tenantId and resource.tenantId are two distinct tenant ids
DistinctTenants(context) ==
    /\ context.subject.k = "object" /\ context.resource.k = "object"
    /\ GetProp(context.subject, "tenantId").k = "string"
    /\ GetProp(context.resource, "tenantId").k = "string"
    /\ GetProp(context.subject, "tenantId") # GetProp(context.resource, "tenantId")

\* C8: a context whose subject.tenantId and resource.tenantId are distinct
\* tenant ids never matches a policy that has the condition subject.tenantId
\* equals {$ref: resource.tenantId}: no such policy has all its conditions
\* holding, and the policy evaluate returns is never such a policy.
C8_TenantIsolation ==
    (Evaluated /\ DistinctTenants(last.context)) =>
        /\ \A i \in 1..Len(heap[policies]) :
              HasTenantCondition(heap[policies][i]) =>
                  checkConditions(heap[policies][i], last.context) # "true"
        /\ last.match > 0 => ~HasTenantCondition(heap[policies][last.match])

\* a cross-tenant context went past a tenant-conditioned policy to a later one
C8_Witness ==
    /\ Evaluated /\ DistinctTenants(last.context)
    /\ Len(heap[policies]) = 2
    /\ HasTenantCondition(heap[policies][1])
    /\ last.match = 2

\* C9: evaluate never throws for a malformed context: when a section or an
\* attribute is missing it still returns an allow/deny decision.
C9_NeverThrows == Evaluated => last.decision.status = "returned"

\* ------------------------------------------------------------------------
\* Properties of the policy cache and the engine's list (Spec)
\* ------------------------------------------------------------------------
\* a call of loadEnabledPolicies, direct or from loadPolicies, that returned
LoadReturned == "load" \in DOMAIN last /\ last.load.returned

EnabledIds(st) == { i \in DOMAIN st : st[i].enabled }

\* the list holds exactly the enabled policies of the store, each once
IsEnabledSetOf(plist, st) ==
    /\ { plist[i].id : i \in 1..Len(plist) } = EnabledIds(st)
    /\ Len(plist) = Cardinality(EnabledIds(st))
    /\ \A i \in 1..Len(plist) :
          /\ plist[i].name = st[plist[i].id].name
          /\ plist[i].effect = st[plist[i].id].effect
          /\ Len(plist[i].conditions) = Len(st[plist[i].id].rules)

C3_ReloadReachesEvaluate ==
    (Evaluated /\ last.afterReload) =>
        last.decision = evaluate(convertedPolicies(store), last.context)

\* C4: every policy evaluate iterates over exists in the store and is
\* enabled, policies registered through addPolicy aside.
C4_OnlyEnabledPoliciesDecide ==
    Evaluated =>
        \A i \in 1..Len(heap[policies]) :
            LET p == heap[policies][i]
            IN  \/ \E n \in 1..Len(registered) : registered[n] = p
                \/ (p.id \in DOMAIN store /\ store[p.id].enabled)

\* C5: when loadPolicies falls back (the store call failed or returned an
\* empty list), every policy registered through addPolicy is still in the
\* engine's list.
C5_FallbackKeepsRegistered ==
    (last.op = "loadPolicies" /\ last.fallback) =>
        \A n \in 1..Len(registered) :
            \E i \in 1..Len(heap[policies]) : heap[policies][i] = registered[n]

\* a call that returned after an earlier call that returned, with no
\* create, update or delete between them
SecondLoad == LoadReturned /\ last.load.prev # None

\* C10 as stated: two calls within cacheTTL of each other, with no policy
\* create/update/delete between them, return the identical ordered list and
\* the second performs no store read.
C10_Original ==
    (SecondLoad /\ now - last.load.prev.at < cacheTTL) =>
        /\ last.load.prev.sameItems
        /\ ~last.load.readStore

\* C10 as amended: two calls with no policy create/update/delete and no
\* reload-cache between them, the second made less than cacheTTL after the
\* timestamp of the cache entry the first call returned, return the same
\* list object, and the second performs no store read.
C10_SameListWithinEntryTTL ==
    (/\ SecondLoad
     /\ ~last.load.prev.invalidated
     /\ now - last.load.prev.timestamp < cacheTTL) =>
        /\ last.load.prev.sameList
        /\ last.load.prev.sameItems
        /\ ~last.load.readStore

\* the second call came later than the first and was served from the entry
\* the first call had stored, a non-empty list
C10_Witness ==
    /\ SecondLoad
    /\ ~last.load.prev.invalidated
    /\ last.load.prev.at = last.load.prev.timestamp
    /\ now > last.load.prev.at
    /\ now - last.load.prev.timestamp < cacheTTL
    /\ last.load.prev.sameList
    /\ Len(heap[last.result]) > 0

\* ------------------------------------------------------------------------
\* The cache entry and the engine's list (claim C11)
\* ------------------------------------------------------------------------
\* the list the cache entry holds
CachedList == heap[cache.policies]

\* C11: the content of the cache entry changes only when loadEnabledPolicies
\* replaces the entry or invalidateCache removes it; addPolicy never changes
\* the list a later loadEnabledPolicies returns from the cache.
C11_CacheOwnsItsList ==
    [][(/\ cache # NoEntry
        /\ cache' # NoEntry
        /\ CachedList' # CachedList) =>
            /\ last'.op \in {"loadEnabledPolicies", "loadPolicies"}
            /\ last'.load.readStore]_vars

\* ------------------------------------------------------------------------
\* PoliciesService calls that overlap: each call runs up to its next await,
\* and the store answers the suspended calls in any order
\* ------------------------------------------------------------------------
\* a call suspended at an await, nothing observed
Awaiting == [op |-> "await"]

\* loadEnabledPolicies up to its await: an entry inside its TTL is returned
\* at once, otherwise the findMany query is issued
LoadBegins ==
    /\ initialised
    /\ loader = Idle
    /\ IF cacheHit(cache, now)
       THEN /\ Commit(policies, cache, prevLoad,
                      [op |-> "loadEnabledPolicies", result |-> cache.policies,
                       call |-> [returned |-> TRUE, readStore |-> FALSE,
                                 overlapped |-> writer # Idle,
                                 fresh |-> CachedList = convertedPolicies(store)]],
                      heap)
            /\ UNCHANGED loader
       ELSE /\ loader' = [pc |-> "findMany", overlapped |-> writer # Idle]
            /\ Commit(policies, cache, prevLoad, Awaiting, heap)
    /\ UNCHANGED << store, nextId, initialised, now, registered, pendingWrite,
                    writer >>
    /\ UNCHANGED requestVars

\* the store runs the findMany query: the rows it holds at that moment, or a
\* rejection that the call passes on to its caller
FindManyResolves ==
    /\ loader.pc = "findMany"
    /\ \E fail \in BOOLEAN :
        IF fail
        THEN /\ loader' = Idle
             /\ Commit(policies, cache, prevLoad,
                       [op |-> "loadEnabledPolicies",
                        call |-> [returned |-> FALSE, readStore |-> TRUE,
                                  overlapped |-> loader.overlapped,
                                  fresh |-> FALSE]],
                       heap)
        ELSE /\ loader' = [pc |-> "found", rows |-> convertedPolicies(store),
                           overlapped |-> loader.overlapped]
             /\ Commit(policies, cache, prevLoad, Awaiting, heap)
    /\ UNCHANGED << store, nextId, initialised, now, registered, pendingWrite,
                    writer >>
    /\ UNCHANGED requestVars

\* loadEnabledPolicies after its await: this.cache.set(cacheKey, { policies,
\* timestamp: Date.now() }) and return
LoadReturns ==
    /\ loader.pc = "found"
    /\ loader' = Idle
    /\ Commit(policies, [policies |-> NewRef(heap), timestamp |-> now], prevLoad,
              [op |-> "loadEnabledPolicies", result |-> NewRef(heap),
               call |-> [returned |-> TRUE, readStore |-> TRUE,
                         overlapped |-> loader.overlapped,
                         fresh |-> loader.rows = convertedPolicies(store)]],
              Alloc(heap, loader.rows))
    /\ UNCHANGED << store, nextId, initialised, now, registered, pendingWrite,
                    writer >>
    /\ UNCHANGED requestVars

\* the store has committed a write; the call is suspended before
\* await this.invalidateCache()
WriteCommits ==
    /\ writer' = [pc |-> "invalidateCache"]
    /\ loader' = IF loader = Idle THEN loader
                 ELSE [loader EXCEPT !.overlapped = TRUE]
    /\ Commit(policies, cache, prevLoad, Awaiting, heap)
    /\ UNCHANGED << initialised, now, registered, pendingWrite >>
    /\ UNCHANGED requestVars

\* create, with the store committing the row
CreateCommits ==
    \E dto \in CreateInputs :
        /\ initialised
        /\ writer = Idle
        /\ findFirstByName(store, dto.name, "null") = {}
        /\ nextId <= MaxCreates
        /\ store' = [i \in DOMAIN store \cup {nextId} |->
                       IF i = nextId
                       THEN [id |-> nextId, name |-> dto.name,
                             effect |-> dto.effect, enabled |-> dto.enabled,
                             tenantId |-> "null", rules |-> dto.rules]
                       ELSE store[i]]
        /\ nextId' = nextId + 1
        /\ WriteCommits

\* update, with the store committing the change
UpdateCommits ==
    \E id \in 1..MaxCreates, data \in UpdateInputs :
        /\ initialised
        /\ writer = Idle
        /\ findOne(store, id)
        /\ store' = [store EXCEPT ![id] =
                       [f \in DOMAIN store[id] |->
                           IF f \in DOMAIN data THEN data[f] ELSE store[id][f]]]
        /\ UNCHANGED nextId
        /\ WriteCommits

\* delete, with the store committing the removal
DeleteCommits ==
    \E id \in 1..MaxCreates :
        /\ initialised
        /\ writer = Idle
        /\ findOne(store, id)
        /\ store' = [i \in DOMAIN store \ {id} |-> store[i]]
        /\ UNCHANGED nextId
        /\ WriteCommits

\* await this.invalidateCache(), then the write returns to its caller
WriteReturns ==
    /\ writer.pc = "invalidateCache"
    /\ writer' = Idle
    /\ Commit(policies, invalidateCache(cache), prevLoad,
              [op |-> "write", ok |-> TRUE], heap)
    /\ UNCHANGED << store, nextId, initialised, now, registered, pendingWrite,
                    loader >>
    /\ UNCHANGED requestVars

OverlapNext ==
    \/ OnModuleInit
    \/ LoadBegins
    \/ FindManyResolves
    \/ LoadReturns
    \/ CreateCommits
    \/ UpdateCommits
    \/ DeleteCommits
    \/ WriteReturns
    \/ Tick

OverlapSpec == Init /\ [][OverlapNext]_vars

\* C12: a loadEnabledPolicies call that starts after every write has returned
\* (no write is suspended or commits while the call runs) never returns a
\* list from before a write: it returns the enabled policies of the store,
\* also when an earlier load overlapped the write.
C12_NoStaleLoadAfterWrite ==
    (/\ last.op = "loadEnabledPolicies"
     /\ "call" \in DOMAIN last
     /\ last.call.returned
     /\ ~last.call.overlapped) => last.call.fresh

\* ------------------------------------------------------------------------
\* AuditService: payload sanitization (audit.service.ts)
\* ------------------------------------------------------------------------
\* the policy engine and the policies service, apart from the observation
policyVars == << store, nextId, cache, heap, policies, initialised, now,
                 registered, pendingWrite, prevLoad, loader, writer >>

\* const forbiddenKeys = new Set([...])
forbiddenKeys == { "password", "refreshToken", "accessToken", "secret", "ssn" }

RECURSIVE deepOmitSkipsArrays(_, _)
\* a walk that does not look inside arrays
deepOmitSkipsArrays(value, keys) ==
    IF value.k = "object"
    THEN Obj([key \in DOMAIN value.attrs \ keys |->
                 deepOmitSkipsArrays(value.attrs[key], keys)])
    ELSE value

RECURSIVE deepOmit(_, _)
\* deepOmit(value, forbiddenKeys): arrays are mapped element by element,
\* objects are rebuilt from their entries without the forbidden keys, and
\* anything else (null included: it is falsy) is returned as it is
deepOmit(value, keys) ==
    IF value.k = "array"
    THEN Arr([i \in 1..Len(value.items) |-> deepOmit(value.items[i], keys)])
    ELSE IF value.k = "object"
    THEN Obj([key \in DOMAIN value.attrs \ keys |->
                 deepOmit(value.attrs[key], keys)])
    ELSE value

\* sanitizePayload(payload): a falsy or non-object payload is returned as
\* payload ?? null
sanitizePayload(payload) ==
    IF payload.k \in {"array", "object"} THEN deepOmit(payload, forbiddenKeys)
    ELSE IF payload \in {Undefined, Null} THEN Null
    ELSE payload

\* nesting depth of the payloads
MaxDepth == 2

\* keys of payload objects: the denylisted names and two others
PayloadKeys ==
    { "password", "refreshToken", "accessToken", "secret", "ssn", "user",
      "profile" }

X == Str(<< "x" >>)

Y == Str(<< "y" >>)

RECURSIVE Json(_)
\* JSON values nested up to depth d: scalars, arrays of one element, objects
\* of one key, and objects of one key next to a password
Json(d) ==
    IF d = 0 THEN { X, Null }
    ELSE LET sub == Json(d - 1)
         IN  sub \cup { Arr(<< >>), Obj(<< >>) }
                 \cup { Arr(<< v >>) : v \in sub }
                 \cup { Obj(key :> v) : key \in PayloadKeys, v \in sub }
                 \cup { Obj((key :> v) @@ ("password" :> X)) :
                          key \in PayloadKeys \ {"password"}, v \in sub }

\* { user: { password: "x", profile: { password: "y" } } }
NestedPasswords ==
    Obj([user |-> Obj([password |-> X, profile |-> Obj([password |-> Y])])])

\* the payloads handed to record: absent, or a JSON value
Payloads == Json(MaxDepth) \cup { NestedPasswords, Undefined }

\* a payload is waiting to be recorded
SanitizeInit ==
    /\ Constructed
    /\ tenants = SeededTenants
    /\ resolutionMode = "jwt"
    /\ request \in { [payload |-> payload] : payload \in Payloads }
    /\ auditLog = << >>

\* AuditService.record reaching this.sanitizePayload(input.payload)
SanitizePayload ==
    /\ request # None
    /\ last' = [op |-> "sanitizePayload", payload |-> request.payload,
                result |-> sanitizePayload(request.payload)]
    /\ request' = None
    /\ UNCHANGED policyVars
    /\ UNCHANGED << tenants, resolutionMode, auditLog >>

SanitizeNext == SanitizePayload

SanitizeSpec == SanitizeInit /\ [][SanitizeNext]_vars

\* a step into a value: by a key of an object or by an index of an array
Key(name) == [key |-> name]

Index(i) == [index |-> i]

RECURSIVE Nodes(_)
\* every node of a value: the path to it, and the scalar found there or the
\* kind of container
Nodes(v) ==
    IF v.k = "array"
    THEN { << << >>, [k |-> "array", len |-> Len(v.items)] >> } \cup
         UNION { { << << Index(i) >> \o n[1], n[2] >> : n \in Nodes(v.items[i]) } :
                   i \in 1..Len(v.items) }
    ELSE IF v.k = "object"
    THEN { << << >>, [k |-> "object"] >> } \cup
         UNION { { << << Key(key) >> \o n[1], n[2] >> : n \in Nodes(v.attrs[key]) } :
                   key \in DOMAIN v.attrs }
    ELSE { << << >>, v >> }

\* the path passes through a key of the denylist
ThroughDeniedKey(path) ==
    \E i \in 1..Len(path) :
        /\ "key" \in DOMAIN path[i]
        /\ path[i].key \in { "password", "refreshToken", "accessToken",
                             "secret", "ssn" }

Sanitized == last.op = "sanitizePayload"

\* C13: the sanitized payload is the payload without the keys password,
\* refreshToken, accessToken, secret and ssn at every depth, inside arrays
\* too: every other key, every array position and every scalar is kept as
\* it was (an absent payload is recorded as null).
C13_SanitizeStripsDeniedKeys ==
    Sanitized =>
        IF last.payload = Undefined THEN last.result = Null
        ELSE Nodes(last.result) =
                 { n \in Nodes(last.payload) : ~ThroughDeniedKey(n[1]) }

\* the nested example, and a denied key inside an object inside an array
C13_Witness ==
    /\ Sanitized
    /\ \/ /\ last.payload = NestedPasswords
          /\ last.result = Obj([user |-> Obj([profile |-> Obj(<< >>)])])
       \/ /\ last.payload = Arr(<< Obj([secret |-> X, password |-> X]) >>)
          /\ last.result = Arr(<< Obj(<< >>) >>)

\* ------------------------------------------------------------------------
\* TenantResolverService (shared/tenant/tenant-aware.service.ts, from line 42)
\* ------------------------------------------------------------------------
\* !v
Falsy(v) ==
    \/ v.k \in {"undefined", "null", "nan"}
    \/ (v.k = "string" /\ Len(v.s) = 0)
    \/ (v.k = "number" /\ v.n = 0)

\* s.split(c)[0]: the characters before the first c, all of s without one
BeforeFirst(s, c) ==
    LET at == { i \in 1..Len(s) : s[i] = c }
    IN  IF at = {} THEN s
        ELSE SubSeq(s, 1, (CHOOSE i \in at : \A j \in at : i <= j) - 1)

Www == << "w", "w", "w" >>

Api == << "a", "p", "i" >>

ApiTenantPrefix ==
    << "/", "a", "p", "i", "/", "t", "e", "n", "a", "n", "t", "/" >>

\* path.match(/^\/api\/tenant\/([^/]+)/): the captured group as a string, or
\* null when the path does not match
pathMatch(path) ==
    LET n == Len(ApiTenantPrefix)
    IN  IF /\ Len(path) > n
           /\ SubSeq(path, 1, n) = ApiTenantPrefix
           /\ path[n + 1] # "/"
        THEN Str(BeforeFirst(SubSeq(path, n + 1, Len(path)), "/"))
        ELSE Null

\* a lookup that also returns tenants that are switched off
findFirstAnyTenant(rows, field, value) ==
    LET hits == { i \in 1..Len(rows) :
                    /\ (value # Undefined => rows[i][field] = value)
                    /\ rows[i].deletedAt = Null }
    IN  IF hits = {} THEN 0 ELSE CHOOSE i \in hits : \A j \in hits : i <= j

\* prisma.tenant.findFirst({ where: { [field]: value, deletedAt: null,
\* isActive: true } }): the position of the first such row, 0 for null; an
\* undefined value in a where clause is no filter
findFirstTenant(rows, field, value) ==
    LET hits == { i \in 1..Len(rows) :
                    /\ (value # Undefined => rows[i][field] = value)
                    /\ rows[i].deletedAt = Null
                    /\ rows[i].isActive }
    IN  IF hits = {} THEN 0 ELSE CHOOSE i \in hits : \A j \in hits : i <= j

\* the TenantContext built from a row
TenantContext(row) ==
    [id |-> row.id, slug |-> row.slug, name |-> row.name,
     domain |-> IF Falsy(row.domain) THEN Undefined ELSE row.domain,
     isActive |-> row.isActive]

\* the outcome of a resolution: a tenant, none (null), NotFoundException, or
\* the error of a store call that rejected; with the lookup that was made
Resolution(outcome, tenant, lookup) ==
    [outcome |-> outcome, tenant |-> tenant, lookup |-> lookup]

NoTenant == Resolution("none", Null, None)

\* the body shared by findTenantById, findTenantBySlug, findTenantByDomain
findTenantBy(rows, field, value, fail) ==
    LET lookup == [field |-> field, value |-> value]
        i == findFirstTenant(rows, field, value)
    IN  IF fail THEN Resolution("error", Null, lookup)
        ELSE IF i = 0 THEN Resolution("notFound", Null, lookup)
        ELSE Resolution("tenant", TenantContext(rows[i]), lookup)

findTenantById(rows, id, fail) == findTenantBy(rows, "id", id, fail)

findTenantBySlug(rows, slug, fail) == findTenantBy(rows, "slug", slug, fail)

findTenantByDomain(rows, domain, fail) ==
    findTenantBy(rows, "domain", domain, fail)

\* request.path: the url without its query string
PathOf(req) == BeforeFirst(req.url, "?")

resolveFromSubdomain(req, rows, fail) ==
    LET host == IF Falsy(req.headers.host) THEN << >> ELSE req.headers.host.s
        subdomain == BeforeFirst(host, ".")
    IN  IF Len(subdomain) = 0 \/ subdomain = Www \/ subdomain = Api
        THEN NoTenant
        ELSE findTenantBySlug(rows, Str(subdomain), fail)

\* tenantSlug is read from x-tenant-id and tenantId from x-tenant-slug
resolveFromHeader(req, rows, fail) ==
    LET tenantSlug == req.headers.xTenantId
        tenantId == req.headers.xTenantSlug
    IN  IF Falsy(tenantSlug) /\ Falsy(tenantId) THEN NoTenant
        ELSE IF ~Falsy(tenantSlug) THEN findTenantBySlug(rows, tenantSlug, fail)
        ELSE findTenantById(rows, tenantId, fail)

resolveFromJwt(req, rows, fail) ==
    LET user == req.user
    IN  IF Falsy(user) \/ Falsy(GetProp(user, "tenantId")) THEN NoTenant
        ELSE findTenantById(rows, GetProp(user, "tenantId"), fail)

resolveFromPath(req, rows, fail) ==
    LET tenantIdentifier == pathMatch(PathOf(req))
    IN  IF tenantIdentifier = Null THEN NoTenant
        ELSE findTenantBySlug(rows, tenantIdentifier, fail)

\* switch (this.resolutionMode)
resolveTenantFromRequest(mode, req, rows, fail) ==
    CASE mode = "subdomain" -> resolveFromSubdomain(req, rows, fail)
      [] mode = "header" -> resolveFromHeader(req, rows, fail)
      [] mode = "jwt" -> resolveFromJwt(req, rows, fail)
      [] mode = "path" -> resolveFromPath(req, rows, fail)
      [] OTHER -> resolveFromJwt(req, rows, fail)

\* ------------------------------------------------------------------------
\* TenantContextInterceptor, AuditInterceptor and AuditService.record
\* ------------------------------------------------------------------------
\* TenantContextInterceptor.intercept without its catch block
interceptRethrows(req, resolution) ==
    [request |-> IF resolution.outcome = "tenant"
                 THEN [req EXCEPT !.tenant = resolution.tenant] ELSE req,
     threw |-> resolution.outcome \in {"notFound", "error"},
     handled |-> IF resolution.outcome \in {"notFound", "error"} THEN 0 ELSE 1]

\* TenantContextInterceptor.intercept, given what resolveTenantFromRequest
\* did: the request it leaves, whether it threw, and how many times it
\* called next.handle()
intercept(req, resolution) ==
    [request |-> IF resolution.outcome = "tenant"
                 THEN [req EXCEPT !.tenant = resolution.tenant] ELSE req,
     threw |-> FALSE,
     handled |-> 1]

POST == << "P", "O", "S", "T" >>

PUT == << "P", "U", "T" >>

PATCH == << "P", "A", "T", "C", "H" >>

DELETE == << "D", "E", "L", "E", "T", "E" >>

SlashDownload == << "/", "d", "o", "w", "n", "l", "o", "a", "d" >>

\* ['POST', 'PUT', 'PATCH', 'DELETE'].includes(method) ||
\* (method === 'GET' && path.includes('/download')), where path is
\* req.originalUrl: the url with its query string
shouldAudit(req) ==
    \/ ArrayIncludes(<< Str(POST), Str(PUT), Str(PATCH), Str(DELETE) >>,
                     req.method)
    \/ (StrictEquals(req.method, Str(GET)) /\ Includes(req.url, SlashDownload))

\* an interceptor that pipes every request through tap and catchError
recordCallsForAll(req, handler) ==
    IF handler = "value" THEN << "success" >> ELSE << "fail" >>

\* the statuses AuditService.record is called with for a request whose
\* handler emitted a value or raised an error: tap on the value, catchError
\* on the error, neither when the request is not audited
recordCalls(req, handler) ==
    IF ~shouldAudit(req) THEN << >>
    ELSE IF handler = "value" THEN << "success" >>
    ELSE << "fail" >>

\* x ?? null
OrNull(v) == IF v = Undefined THEN Null ELSE v

\* buildPayload(req)
buildPayload(req) ==
    Obj([params |-> Obj(<< >>), query |-> Obj(<< >>), body |-> req.body])

\* the row of an interceptor that captured the request before the tenant
\* was resolved
auditRowBeforeTenant(req, status) ==
    [actorId |-> OrNull(IF Falsy(req.user) THEN Undefined
                        ELSE GetProp(req.user, "id")),
     tenantId |-> Null,
     status |-> status,
     method |-> OrNull(req.method),
     path |-> Str(req.url),
     payload |-> sanitizePayload(buildPayload(req))]

\* the row AuditService.record creates from the values the interceptor
\* captured: user = req.user || {}, tenant = req.tenant
auditRow(req, status) ==
    [actorId |-> OrNull(IF Falsy(req.user) THEN Undefined
                        ELSE GetProp(req.user, "id")),
     tenantId |-> OrNull(IF req.tenant = Undefined THEN Undefined
                         ELSE req.tenant.id),
     status |-> status,
     method |-> OrNull(req.method),
     path |-> Str(req.url),
     payload |-> sanitizePayload(buildPayload(req))]

\* what the caller of the interceptor receives: the handler's value, the
\* handler's error, or the error of the audit write when catchError's
\* await this.auditService.record(...) rejects before throw err
response(req, handler, persisted) ==
    IF handler = "value" THEN "value"
    ELSE IF shouldAudit(req) /\ ~persisted THEN "auditError"
    ELSE "handlerError"

\* ------------------------------------------------------------------------
\* Requests through the interceptors
\* ------------------------------------------------------------------------
Acme == << "a", "c", "m", "e" >>

Zeta == << "z", "e", "t", "a" >>

DotIo == << ".", "i", "o" >>

\* the tenant 'acme' with id 'A', switched on or off, soft-deleted or not
AcmeRow(isActive, deletedAt) ==
    Tenant(Str(TenantA), Str(Acme), Str(Acme \o DotIo), isActive, deletedAt)

\* the tenants table: the seeded tenant, alone or followed by acme
TenantStores ==
    { SeededTenants,
      SeededTenants \o << AcmeRow(TRUE, Null) >>,
      SeededTenants \o << AcmeRow(FALSE, Null) >>,
      SeededTenants \o << AcmeRow(TRUE, Num(1)) >> }

\* values of TENANT_RESOLUTION_MODE; 'cookie' is not a mode of the switch
ResolutionModes == { "subdomain", "header", "jwt", "path", "cookie" }

Url(chars) == << "/" >> \o chars

UsersUrl == Url(<< "u", "s", "e", "r", "s" >>)

NoHeaders ==
    [host |-> Undefined, xTenantId |-> Undefined, xTenantSlug |-> Undefined]

\* GET /users with no tenant identifier and no actor
BaseRequest ==
    [method |-> Str(GET), url |-> UsersUrl, headers |-> NoHeaders,
     user |-> Undefined, tenant |-> Undefined, body |-> Undefined,
     stage |-> "received"]

Hosts ==
    { Undefined, Str(<< >>), Str(Www \o DotIo), Str(Api \o DotIo), Str(Acme),
      Str(Acme \o DotIo), Str(Zeta \o DotIo) }

HeaderValues == { Undefined, Str(TenantA), Str(Acme), Str(Zeta) }

\* request.user as the JWT strategy leaves it
Actors ==
    { Undefined,
      Obj([id |-> Str(U1), roles |-> Arr(<< Str(ADMIN) >>)]),
      Obj([id |-> Str(U1), roles |-> Arr(<< Str(ADMIN) >>),
           tenantId |-> Str(TenantA)]),
      Obj([id |-> Str(U1), roles |-> Arr(<< Str(ADMIN) >>),
           tenantId |-> Str(Zeta)]) }

TenantUrls ==
    { ApiTenantPrefix \o Acme \o UsersUrl,
      ApiTenantPrefix \o Zeta,
      ApiTenantPrefix,
      << "/", "a", "p", "i", "/", "t", "e", "n", "a", "n", "t", "s", "/" >>
          \o Acme }

AuditedUrls ==
    { UsersUrl,
      Url(<< "f", "i", "l", "e", "s" >>) \o SlashDownload,
      UsersUrl \o << "?", "n", "e", "x", "t", "=" >> \o SlashDownload }

Methods == { Str(GET), Str(POST), Str(PUT), Str(PATCH), Str(DELETE) }

\* the requests of the model: the base request with one part varied
Requests ==
    { [BaseRequest EXCEPT !.headers.host = h] : h \in Hosts } \cup
    { [BaseRequest EXCEPT !.headers.xTenantId = i, !.headers.xTenantSlug = g] :
        i \in HeaderValues, g \in HeaderValues } \cup
    { [BaseRequest EXCEPT !.user = u] : u \in Actors } \cup
    { [BaseRequest EXCEPT !.url = u] : u \in TenantUrls } \cup
    { [BaseRequest EXCEPT !.method = m, !.url = u, !.user = a,
                          !.body = Obj([password |-> X, name |-> Y])] :
        m \in Methods, u \in AuditedUrls,
        a \in { a \in Actors : a = Undefined \/ "tenantId" \in DOMAIN a.attrs } }

\* the policy engine after onModuleInit found no policies to load
EngineUp ==
    /\ store = << >>
    /\ nextId = 1
    /\ cache = NoEntry
    /\ heap = << loadDefaultPolicies >>
    /\ policies = 1
    /\ initialised = TRUE
    /\ now = 0
    /\ registered = << >>
    /\ pendingWrite = None
    /\ prevLoad = None
    /\ last = [op |-> "constructed"]
    /\ loader = Idle
    /\ writer = Idle

\* the application is up with its tenants table and its resolution mode
RequestInit ==
    /\ EngineUp
    /\ tenants \in TenantStores
    /\ resolutionMode \in ResolutionModes
    /\ request = None
    /\ auditLog = << >>

\* a request has been received and not yet answered
InPipeline == request # None /\ request.stage # "responded"

\* a request enters the pipeline; auditLog holds the audit_logs rows written
\* for the request in the pipeline
Receive ==
    /\ ~InPipeline
    /\ \E req \in Requests : request' = req
    /\ auditLog' = << >>
    /\ last' = [op |-> "receive"]
    /\ UNCHANGED << tenants, resolutionMode >>
    /\ UNCHANGED policyVars

\* TenantContextInterceptor.intercept; fail: the store lookup rejects
TenantContextIntercept ==
    /\ request # None
    /\ request.stage = "received"
    /\ \E fail \in BOOLEAN :
        LET resolution ==
                resolveTenantFromRequest(resolutionMode, request, tenants, fail)
            done == intercept(request, resolution)
        IN  /\ (fail => resolution.lookup # None)
            /\ request' = [done.request EXCEPT !.stage =
                              IF done.threw THEN "responded" ELSE "handling"]
            /\ last' = [op |-> "tenantContext", resolution |-> resolution,
                        threw |-> done.threw, handled |-> done.handled,
                        tenant |-> done.request.tenant]
    /\ UNCHANGED << tenants, resolutionMode, auditLog >>
    /\ UNCHANGED policyVars

\* AuditInterceptor.intercept around the route handler, with the callbacks
\* of its pipe; handler: the route handler emitted a value or raised an
\* error; persisted: prisma.auditLog.create resolved
AuditIntercept ==
    /\ request # None
    /\ request.stage = "handling"
    /\ \E handler \in {"value", "error"}, persisted \in BOOLEAN :
        LET calls == recordCalls(request, handler)
            rows == [i \in 1..Len(calls) |-> auditRow(request, calls[i])]
        IN  /\ auditLog' = IF persisted THEN auditLog \o rows ELSE auditLog
            /\ last' = [op |-> "audit", handler |-> handler,
                        persisted |-> persisted, calls |-> calls,
                        response |-> response(request, handler, persisted)]
    /\ request' = [request EXCEPT !.stage = "responded"]
    /\ UNCHANGED << tenants, resolutionMode >>
    /\ UNCHANGED policyVars

\* identifiers handed to the public lookups: an id, a slug, a domain, a
\* name no tenant has, and the empty string
Identifiers ==
    { Str(TenantA), Str(Acme), Str(Acme \o DotIo), Str(Zeta), Str(<< >>) }

\* a direct call of findTenantById, findTenantBySlug or findTenantByDomain
FindTenant ==
    /\ request = None
    /\ \E value \in Identifiers, fail \in BOOLEAN :
        \E resolution \in { findTenantById(tenants, value, fail),
                            findTenantBySlug(tenants, value, fail),
                            findTenantByDomain(tenants, value, fail) } :
            last' = [op |-> "findTenant", resolution |-> resolution]
    /\ UNCHANGED requestVars
    /\ UNCHANGED policyVars

\* a helper that lets an actor without a tenant reach tenant-agnostic
\* resources
validateTenantAccessLenient(userTenantId, resourceTenantId) ==
    IF Falsy(resourceTenantId) THEN "returned"
    ELSE IF Falsy(userTenantId) THEN "User does not belong to any tenant"
    ELSE IF ~StrictEquals(userTenantId, resourceTenantId)
    THEN "Access denied: Tenant mismatch"
    ELSE "returned"

\* TenantAwareService.validateTenantAccess: "returned", or the message of
\* the Error it throws
validateTenantAccess(userTenantId, resourceTenantId) ==
    IF Falsy(userTenantId) THEN "User does not belong to any tenant"
    ELSE IF Falsy(resourceTenantId) THEN "returned"
    ELSE IF ~StrictEquals(userTenantId, resourceTenantId)
    THEN "Access denied: Tenant mismatch"
    ELSE "returned"

\* string | null | undefined; '' is what ensureTenantContext returns for a
\* missing tenant
TenantIds == { Undefined, Null, Str(<< >>), Str(TenantA), Str(TenantB) }

\* a tenant-aware service checks an actor's tenant against a resource's
ValidateTenantAccess ==
    /\ request = None
    /\ \E userTenantId \in TenantIds, resourceTenantId \in TenantIds :
        last' = [op |-> "validateTenantAccess", userTenantId |-> userTenantId,
                 resourceTenantId |-> resourceTenantId,
                 outcome |-> validateTenantAccess(userTenantId,
                                                  resourceTenantId)]
    /\ UNCHANGED requestVars
    /\ UNCHANGED policyVars

RequestNext ==
    \/ Receive
    \/ TenantContextIntercept
    \/ AuditIntercept
    \/ FindTenant
    \/ ValidateTenantAccess

RequestSpec == RequestInit /\ [][RequestNext]_vars

\* ------------------------------------------------------------------------
\* Claims about the audit pipeline
\* ------------------------------------------------------------------------
\* the request in the pipeline has passed through AuditInterceptor
Audited == last.op = "audit"

MutatingMethods == { Str(POST), Str(PUT), Str(PATCH), Str(DELETE) }

\* a mutating method, or a GET whose path contains /download
AuditedByPath ==
    \/ request.method \in MutatingMethods
    \/ (request.method = Str(GET) /\ Includes(PathOf(request), SlashDownload))

\* a mutating method, or a GET whose url (path and query string) contains
\* /download
AuditedByUrl ==
    \/ request.method \in MutatingMethods
    \/ (request.method = Str(GET) /\ Includes(request.url, SlashDownload))

ExpectedStatus == IF last.handler = "value" THEN "success" ELSE "fail"

TenantResolved == last.op = "tenantContext"

\* the active, non-deleted rows whose column holds the value
ActiveRows(field, value) ==
    { i \in 1..Len(tenants) :
        /\ tenants[i][field] = value
        /\ tenants[i].isActive
        /\ tenants[i].deletedAt = Null }

\* C15: in mode header, a request with header x-tenant-slug: S (and no
\* x-tenant-id) for which an active, non-deleted tenant with slug S exists
\* resolves to that tenant; a request with neither header resolves to none
\* without raising.
C15_HeaderSlugResolves ==
    (/\ TenantResolved
     /\ resolutionMode = "header"
     /\ last.resolution.outcome # "error") =>
        /\ (/\ request.headers.xTenantSlug # Undefined
            /\ request.headers.xTenantId = Undefined
            /\ ActiveRows("slug", request.headers.xTenantSlug) # {}) =>
                /\ last.resolution.outcome = "tenant"
                /\ \E i \in ActiveRows("slug", request.headers.xTenantSlug) :
                       last.resolution.tenant.id = tenants[i].id
        /\ (/\ request.headers.xTenantSlug = Undefined
            /\ request.headers.xTenantId = Undefined) =>
                last.resolution.outcome = "none"

\* C16: whatever resolveTenantFromRequest did (returned a tenant, returned
\* none, raised not-found or any other error), TenantContextInterceptor
\* does not fail the request and calls the downstream handler exactly once;
\* request.tenant is set if and only if the resolver returned a tenant.
C16_InterceptorNeverFails ==
    TenantResolved =>
        /\ ~last.threw
        /\ last.handled = 1
        /\ request.stage = "handling"
        /\ (request.tenant # Undefined) <=> (last.resolution.outcome = "tenant")
        /\ (request.tenant # Undefined) => request.tenant = last.resolution.tenant

\* the resolver raised, and the request went on to its handler with no
\* tenant
C16_Witness ==
    /\ TenantResolved
    /\ last.resolution.outcome \in {"notFound", "error"}
    /\ last.handled = 1
    /\ request.tenant = Undefined

\* a lookup or a resolution has just been made
Resolved == "resolution" \in DOMAIN last

\* C17: every TenantContext the resolver produces, through a mode or through
\* findTenantById, findTenantBySlug or findTenantByDomain, describes a row
\* that is active and not soft-deleted at lookup time and has isActive =
\* true; when no such row matches the identifier, the lookup raises
\* not-found and returns no context.
C17_ContextsAreActiveTenants ==
    Resolved =>
        LET r == last.resolution
        IN  /\ r.outcome = "tenant" =>
                /\ r.lookup # None
                /\ r.tenant.isActive = TRUE
                /\ \E i \in ActiveRows(r.lookup.field, r.lookup.value) :
                       /\ r.tenant.id = tenants[i].id
                       /\ r.tenant.slug = tenants[i].slug
            /\ (/\ r.lookup # None
                /\ r.outcome # "error"
                /\ ActiveRows(r.lookup.field, r.lookup.value) = {}) =>
                    r.outcome = "notFound" /\ r.tenant = Null

\* the identifier is that of a tenant which is switched off or soft-deleted,
\* and the lookup raised not-found
C17_Witness ==
    /\ Resolved
    /\ last.resolution.outcome = "notFound"
    /\ \E i \in 1..Len(tenants) :
           /\ tenants[i][last.resolution.lookup.field] = last.resolution.lookup.value
           /\ (~tenants[i].isActive \/ tenants[i].deletedAt # Null)

\* the tenant identifiers a request carries for a mode: the first label of
\* the host unless empty, www or api (subdomain); the x-tenant-id header as
\* an id and the x-tenant-slug header as a slug (header); the segment after
\* /api/tenant/ (path); the actor's tenantId claim (jwt and any other value)
CarriedIdentifiers(mode, req) ==
    CASE mode = "subdomain" ->
            LET host == IF Falsy(req.headers.host) THEN << >>
                        ELSE req.headers.host.s
                label == BeforeFirst(host, ".")
            IN  IF label \in { << >>, Www, Api } THEN {}
                ELSE { [field |-> "slug", value |-> Str(label)] }
      [] mode = "header" ->
            { [field |-> "id", value |-> v] :
                v \in { req.headers.xTenantId } \ { Undefined } } \cup
            { [field |-> "slug", value |-> v] :
                v \in { req.headers.xTenantSlug } \ { Undefined } }
      [] mode = "path" ->
            { [field |-> "slug", value |-> v] :
                v \in { pathMatch(PathOf(req)) } \ { Null } }
      [] OTHER ->
            IF req.user = Undefined THEN {}
            ELSE { [field |-> "id", value |-> v] :
                     v \in { GetProp(req.user, "tenantId") } \ { Undefined } }

\* C18: in each mode resolveTenantFromRequest returns none, without a store
\* lookup and without raising, when the request carries no tenant
\* identifier for the mode, and raises not-found only when an identifier is
\* present but matches no active tenant; an unrecognised mode behaves as
\* jwt.
C18_NoneWithoutIdentifier ==
    (TenantResolved /\ last.resolution.outcome # "error") =>
        LET ids == CarriedIdentifiers(resolutionMode, request)
            r == last.resolution
        IN  /\ ids = {} => (r.outcome = "none" /\ r.lookup = None)
            /\ r.outcome = "notFound" =>
                /\ ids # {}
                /\ \A id \in ids : ActiveRows(id.field, id.value) = {}
            /\ resolutionMode \notin { "subdomain", "header", "jwt", "path" } =>
                r = resolveFromJwt(request, tenants, FALSE)

\* ------------------------------------------------------------------------
\* Tenant access validation

\* no tenant: undefined, null, or the '' a service reads for a missing one
AbsentTenant == { Undefined, Null, Str(<< >>) }

TenantAccessChecked == last.op = "validateTenantAccess"

\* C20: validateTenantAccess(actorTenant, resourceTenant) rejects when the
\* actor tenant is absent whatever the resource tenant, accepts when the
\* actor tenant is present and the resource tenant is absent, rejects when
\* both are present and unequal, and accepts when both are present and
\* equal.
C20_TenantAccessCases ==
    TenantAccessChecked =>
        LET actor == last.userTenantId
            resource == last.resourceTenantId
            accepted == last.outcome = "returned"
        IN  /\ actor \in AbsentTenant => ~accepted
            /\ (actor \notin AbsentTenant /\ resource \in AbsentTenant) =>
                accepted
            /\ (actor \notin AbsentTenant /\ resource \notin AbsentTenant
                /\ actor # resource) => ~accepted
            /\ (actor \notin AbsentTenant /\ actor = resource) => accepted

\* an actor of tenant A was refused a resource of tenant B
C20_Witness ==
    /\ TenantAccessChecked
    /\ last.userTenantId = Str(TenantA)
    /\ last.resourceTenantId = Str(TenantB)
    /\ last.outcome = "Access denied: Tenant mismatch"

\* ------------------------------------------------------------------------
\* AbacGuard (GuardSpec)
\* ------------------------------------------------------------------------
\* user.roles?.[0]
FirstOf(roles) ==
    IF roles.k = "array" /\ Len(roles.items) >= 1 THEN roles.items[1]
    ELSE Undefined

\* the PolicyContext canActivate assembles; the strings Date renders are
\* stood for by the reading of the clock they are rendered from
policyContext(req, role) ==
    [subject |-> Obj([id |-> GetProp(req.user, "id"),
                      role |-> role,
                      roles |-> GetProp(req.user, "roles"),
                      permissions |-> GetProp(req.user, "permissions"),
                      department |-> GetProp(req.user, "department"),
                      tenantId |-> GetProp(req.user, "tenantId"),
                      clearanceLevel |-> GetProp(req.user, "clearanceLevel")]),
     resource |-> IF req.resource \in { Undefined, Null }
                  THEN Obj([id |-> req.params.id])
                  ELSE req.resource,
     action |-> req.method,
     environment |-> Obj([timeOfDay |-> Str(NumberToString(now)),
                          date |-> Str(NumberToString(now)),
                          ipAddress |-> req.ip,
                          userAgent |-> req.headers.userAgent])]

\* what became of a canActivate call: the value it resolved to, or a
\* rejection, and the context handed to the engine (None: not invoked)
Activation(outcome, result, evaluated) ==
    [outcome |-> outcome, result |-> result, evaluated |-> evaluated]

decide(plist, req, role) ==
    IF Falsy(req.user) THEN Activation("returned", FALSE, None)
    ELSE LET ctx == policyContext(req, role)
             decision == evaluate(plist, ctx)
         IN  IF decision = Rejected THEN Activation("rejected", FALSE, ctx)
             ELSE Activation("returned", decision.effect = "allow", ctx)

\* a guard whose primary role is the last of the actor's roles
canActivateLastRole(plist, req) ==
    LET roles == IF Falsy(req.user) THEN Undefined
                 ELSE GetProp(req.user, "roles")
    IN  decide(plist, req,
               IF roles.k = "array" /\ Len(roles.items) >= 1
               THEN roles.items[Len(roles.items)]
               ELSE Undefined)

\* AbacGuard.canActivate against the list this.policies refers to
canActivate(plist, req) ==
    decide(plist, req,
           IF Falsy(req.user) THEN Undefined
           ELSE FirstOf(GetProp(req.user, "roles")))

USER == << "U", "S", "E", "R" >>

\* request.user as the authentication step leaves it
GuardActors ==
    { Undefined, Null,
      Obj([id |-> Str(U1)]),
      Obj([id |-> Str(U1), roles |-> Arr(<< Str(ADMIN) >>),
           tenantId |-> Str(TenantA)]),
      Obj([id |-> Str(U1), roles |-> Arr(<< Str(USER), Str(ADMIN) >>),
           tenantId |-> Str(TenantA)]),
      Obj([id |-> Str(U2), roles |-> Arr(<< >>), tenantId |-> Str(TenantB)]) }

\* requests reaching a guarded route: with or without a preloaded resource
\* and a route id
GuardRequests ==
    { [user |-> user, resource |-> resource, params |-> [id |-> id],
       method |-> Str(method), ip |-> Str(ip),
       headers |-> [userAgent |-> Undefined], stage |-> "received"] :
        user \in GuardActors,
        resource \in { Undefined, Null, Resource(Str(U1), Str(TenantA)) },
        id \in { Undefined, Str(U1) },
        method \in { GET, POST },
        ip \in { U1, U2 } }

\* the engine holds any list of up to MaxListLen policies and a request is
\* at the guard
GuardInit ==
    /\ store = << >>
    /\ nextId = 1
    /\ cache = NoEntry
    /\ heap \in { << plist >> : plist \in PolicyLists }
    /\ policies = 1
    /\ initialised = TRUE
    /\ now = 0
    /\ registered = << >>
    /\ pendingWrite = None
    /\ prevLoad = None
    /\ last = [op |-> "constructed"]
    /\ loader = Idle
    /\ writer = Idle
    /\ tenants = SeededTenants
    /\ resolutionMode = "jwt"
    /\ request \in GuardRequests
    /\ auditLog = << >>

\* the guard decides on the request
CanActivate ==
    /\ request.stage = "received"
    /\ request' = [request EXCEPT !.stage = "guarded"]
    /\ last' = [op |-> "canActivate",
                activation |-> canActivate(heap[policies], request)]
    /\ UNCHANGED << tenants, resolutionMode, auditLog >>
    /\ UNCHANGED policyVars

GuardNext == CanActivate

GuardSpec == GuardInit /\ [][GuardNext]_vars

\* ------------------------------------------------------------------------
\* Properties of the guard (GuardSpec)
\* ------------------------------------------------------------------------
Guarded == last.op = "canActivate"

ActorPresent == request.user \notin { Undefined, Null }

\* C19: canActivate returns true iff an authenticated actor is present and
\* PolicyEngine.evaluate of the assembled context (subject.role the first of
\* the actor's roles, resource the preloaded resource or {id: route id},
\* action the request method) has effect allow; with no actor it returns
\* false and the engine is never invoked.
C19_GuardFollowsDecision ==
    Guarded =>
        LET a == last.activation
            roles == GetProp(request.user, "roles")
        IN  /\ a.outcome = "returned"
            /\ ~ActorPresent => (a.result = FALSE /\ a.evaluated = None)
            /\ ActorPresent =>
                /\ a.evaluated # None
                /\ GetProp(a.evaluated.subject, "role") =
                       (IF roles = Undefined \/ roles.items = << >>
                        THEN Undefined ELSE Head(roles.items))
                /\ a.evaluated.resource =
                       (IF request.resource \in { Undefined, Null }
                        THEN Obj([id |-> request.params.id])
                        ELSE request.resource)
                /\ a.evaluated.action = request.method
                /\ a.result =
                       (evaluate(heap[policies], a.evaluated) =
                            Decision("allow",
                                     evaluate(heap[policies],
                                              a.evaluated).reason))

\* an actor was let through on a resource taken from the route id
C19_Witness ==
    /\ Guarded
    /\ ActorPresent
    /\ request.resource = Undefined
    /\ request.params.id = Str(U1)
    /\ last.activation.result = TRUE

\* ------------------------------------------------------------------------
\* evaluateCondition as a function of the condition and the context
\* (ConditionSpec)
\* ------------------------------------------------------------------------
Condition(attribute, operator, value) ==
    [attribute |-> attribute, operator |-> operator, value |-> value]

\* attribute paths of conditions: attributes the contexts carry or lack, the
\* action, and a path into a namespace the engine does not know
ConditionAttributes ==
    { << "subject", "id" >>, << "subject", "clearanceLevel" >>,
      << "resource", "ownerId" >>, << "environment", "ipAddress" >>,
      << "action" >>, << "user", "id" >> }

\* the six operators of compare and one it does not know
ConditionOperators == Operators \cup { "starts_with" }

\* expected values: literals (strings, a number, arrays) and references,
\* one of them into an unknown namespace
ConditionValues ==
    { Str(U1), Str(<< "d", "e", "f" >>), Num(5), Arr(<< Str(U1) >>),
      Arr(<< >>), Ref(<< "resource", "ownerId" >>), Ref(<< "user", "id" >>) }

Conditions ==
    { Condition(a, o, v) :
        a \in ConditionAttributes, o \in ConditionOperators,
        v \in ConditionValues }

\* contexts a condition is evaluated in: every attribute present; subject
\* attributes and the resource missing; empty sections; no subject section
ConditionContexts ==
    { Context(Obj([id |-> Str(U1), clearanceLevel |-> Num(7)]),
              Obj([ownerId |-> Str(U1)]), Env),
      Context(Obj([id |-> Str(U2)]), Undefined, Env),
      Context(Obj(<< >>), Obj(<< >>), Obj(<< >>)),
      Context(Undefined, Obj([ownerId |-> Str(U1)]), Env) }

\* action equals 'GET': holds in every context of the model
ActionIsGet == Condition(<< "action" >>, "equals", Str(GET))

\* the condition lists of a policy that contains the condition
ConditionLists(condition) ==
    { << condition >>, << ActionIsGet, condition >>,
      << condition, ActionIsGet >> }

\* the engine holds one policy containing the condition, and a context is
\* about to be evaluated
ConditionInit ==
    /\ store = << >>
    /\ nextId = 1
    /\ cache = NoEntry
    /\ request \in { [condition |-> c, context |-> x] :
                        c \in Conditions, x \in ConditionContexts }
    /\ heap \in { << << [id |-> 1, name |-> "Policy", effect |-> "allow",
                         conditions |-> cs] >> >> :
                    cs \in ConditionLists(request.condition) }
    /\ policies = 1
    /\ initialised = TRUE
    /\ now = 0
    /\ registered = << >>
    /\ pendingWrite = None
    /\ prevLoad = None
    /\ last = [op |-> "constructed"]
    /\ loader = Idle
    /\ writer = Idle
    /\ tenants = SeededTenants
    /\ resolutionMode = "jwt"
    /\ auditLog = << >>

\* PolicyEngine.evaluate(context), with what evaluateCondition and resolveRef
\* made of the condition
EvaluateCondition ==
    /\ request # None
    /\ request' = None
    /\ last' = [op |-> "evaluateCondition",
                condition |-> request.condition,
                context |-> request.context,
                result |-> evaluateCondition(request.condition,
                                             request.context),
                expected |-> resolveRef(request.condition.value,
                                        request.context),
                match |-> matchIndex(heap[policies], request.context),
                decision |-> evaluate(heap[policies], request.context)]
    /\ UNCHANGED << tenants, resolutionMode, auditLog >>
    /\ UNCHANGED policyVars

ConditionNext == EvaluateCondition

ConditionSpec == ConditionInit /\ [][ConditionNext]_vars

\* ------------------------------------------------------------------------
\* Properties of evaluateCondition (ConditionSpec)
\* ------------------------------------------------------------------------
ConditionEvaluated == last.op = "evaluateCondition"

KnownNamespaces == { "subject", "resource", "environment", "action" }

\* the section of the context an attribute path names
SectionOf(context, attribute) ==
    CASE attribute[1] = "subject" -> context.subject
      [] attribute[1] = "resource" -> context.resource
      [] attribute[1] = "environment" -> context.environment

\* the path names an attribute of a known section that the context lacks:
\* the section is there without the attribute, or the optional resource
\* section is missing
AttributeAbsent(context, attribute) ==
    /\ attribute[1] \in { "subject", "resource", "environment" }
    /\ Len(attribute) = 2
    /\ LET section == SectionOf(context, attribute)
       IN  \/ (section.k = "object" /\ attribute[2] \notin DOMAIN section.attrs)
           \/ (section = Undefined /\ attribute[1] = "resource")

\* a literal expected value that is present
PresentLiteral(value) == value.k \in { "string", "number", "array" }

\* C21: for each of equals, in, greater, less and contains, a condition
\* whose actual attribute is absent from the context evaluates false
\* against every present literal expected value.
C21_AbsentAttributeIsFalse ==
    (/\ ConditionEvaluated
     /\ last.condition.operator \in
            { "equals", "in", "greater", "less", "contains" }
     /\ AttributeAbsent(last.context, last.condition.attribute)
     /\ PresentLiteral(last.condition.value)) =>
        last.result = "false"

\* the comparison falls outside the operator's domain: the operator is none
\* of the six, or it is in and the expected value is not an array
OutsideDomain ==
    \/ last.condition.operator \notin
          { "equals", "not_equals", "greater", "less", "in", "contains" }
    \/ (last.condition.operator = "in" /\ last.expected.k # "array")

\* C22: a condition with an operator outside {equals, not_equals, greater,
\* less, in, contains}, or with operator in and an expected value that is
\* not a sequence, evaluates false; the comparison raises no error, and a
\* policy containing such a condition never matches. In a context of the
\* PolicyContext type the condition is false and evaluate returns the
\* default deny; in no context does the condition hold or the policy match.
C22_FailClosedOutsideDomain ==
    (ConditionEvaluated /\ OutsideDomain) =>
        /\ last.result # "true"
        /\ last.match # 1
        /\ WellFormed(last.context) =>
              /\ last.result = "false"
              /\ last.decision = Decision("deny", "No policy matched")

\* subject.id in 'u1' was evaluated for the subject u1, next to a condition
\* that holds: the expected value equals the actual one and is no array
C22_Witness ==
    /\ ConditionEvaluated
    /\ last.condition =
          Condition(<< "subject", "id" >>, "in", Str(U1))
    /\ WellFormed(last.context)
    /\ GetProp(last.context.subject, "id") = Str(U1)
    /\ heap[policies][1].conditions = << ActionIsGet, last.condition >>
    /\ last.result = "false"
    /\ last.decision.effect = "deny"

\* the attribute lookup of a condition on a known namespace raises: the
\* subject or environment section it reads is missing
LookupThrows(context, attribute) ==
    /\ attribute[1] \in { "subject", "environment" }
    /\ SectionOf(context, attribute) = Undefined

\* the value the context holds for an attribute path of a known namespace
ActualOf(context, attribute) ==
    IF attribute[1] = "action" THEN context.action
    ELSE LET section == SectionOf(context, attribute)
         IN  IF section.k = "object" /\ Len(attribute) = 2
                /\ attribute[2] \in DOMAIN section.attrs
             THEN section.attrs[attribute[2]]
             ELSE Undefined

\* what each operator makes of an actual value and an absent expected one
ComparedWithAbsent(actual, operator) ==
    CASE operator = "equals" -> actual = Undefined
      [] operator = "not_equals" -> actual # Undefined
      [] operator = "contains" ->
            Includes(ToStringJS(actual),
                     << "u", "n", "d", "e", "f", "i", "n", "e", "d" >>)
      [] OTHER -> FALSE

\* C30: a condition whose attribute path names a namespace outside
\* {subject, resource, environment, action} evaluates false for every
\* operator, not_equals included, whatever the expected value; a $ref value
\* naming such a namespace resolves to absent and is then compared with the
\* actual value as the operator prescribes.
C30_UnknownNamespace ==
    ConditionEvaluated =>
        /\ last.condition.attribute[1] \notin KnownNamespaces =>
              last.result = "false"
        /\ (/\ last.condition.attribute[1] \in KnownNamespaces
            /\ last.condition.value.k = "ref"
            /\ last.condition.value.path[1] \notin KnownNamespaces) =>
              /\ last.expected = Undefined
              /\ ~LookupThrows(last.context, last.condition.attribute) =>
                    (last.result = "true" <=>
                        ComparedWithAbsent(
                            ActualOf(last.context, last.condition.attribute),
                            last.condition.operator))
                    /\ last.result \in { "true", "false" }

\* user.id not_equals 'u1' was evaluated and did not hold
C30_Witness ==
    /\ ConditionEvaluated
    /\ last.condition = Condition(<< "user", "id" >>, "not_equals", Str(U1))
    /\ heap[policies][1].conditions = << last.condition >>
    /\ last.result = "false"
    /\ last.decision = Decision("deny", "No policy matched")

\* ------------------------------------------------------------------------
\* PolicyEngine.loadPolicies overlapping evaluate, addPolicy and writes
\* (RefreshSpec): loadPolicies runs up to each of its awaits, and whatever
\* is ready runs in between. evaluate and addPolicy have no await in their
\* bodies and run in one step.
\* ------------------------------------------------------------------------
\* loadPolicies up to its first suspension: loadEnabledPolicies returns the
\* cached list at once (prevLoad holds the list a call returned), or issues
\* findMany
RefreshBegins ==
    /\ initialised
    /\ loader = Idle
    /\ IF cacheHit(cache, now)
       THEN /\ loader' = [pc |-> "assign", returned |-> TRUE,
                          overlapped |-> FALSE]
            /\ Commit(policies, cache,
                      [ref |-> cache.policies, at |-> now,
                       timestamp |-> cache.timestamp, invalidated |-> FALSE],
                      Awaiting, heap)
       ELSE /\ loader' = [pc |-> "findMany", overlapped |-> FALSE]
            /\ Commit(policies, cache, prevLoad, Awaiting, heap)
    /\ UNCHANGED << store, nextId, initialised, now, registered, pendingWrite,
                    writer >>
    /\ UNCHANGED requestVars

\* findMany answers: it rejects, or loadEnabledPolicies converts the rows,
\* stores the cache entry and returns the new list to the suspended
\* loadPolicies
RefreshReads ==
    /\ loader.pc = "findMany"
    /\ \E fail \in BOOLEAN :
        IF fail
        THEN /\ loader' = [pc |-> "assign", returned |-> FALSE,
                           overlapped |-> loader.overlapped]
             /\ Commit(policies, cache, prevLoad, Awaiting, heap)
        ELSE /\ loader' = [pc |-> "assign", returned |-> TRUE,
                           overlapped |-> loader.overlapped]
             /\ Commit(policies,
                       [policies |-> NewRef(heap), timestamp |-> now],
                       [ref |-> NewRef(heap), at |-> now, timestamp |-> now,
                        invalidated |-> FALSE],
                       Awaiting, Alloc(heap, convertedPolicies(store)))
    /\ UNCHANGED << store, nextId, initialised, now, registered, pendingWrite,
                    writer >>
    /\ UNCHANGED requestVars

\* loadPolicies after its await: this.policies = dbPolicies, or the fallback
\* this.policies = []
RefreshAssigns ==
    /\ loader.pc = "assign"
    /\ loader' = Idle
    /\ IF loader.returned /\ Len(heap[prevLoad.ref]) > 0
       THEN Commit(prevLoad.ref, cache, prevLoad,
                   [op |-> "loadPolicies", fallback |-> FALSE], heap)
       ELSE Commit(NewRef(heap), cache, prevLoad,
                   [op |-> "loadPolicies", fallback |-> TRUE],
                   Alloc(heap, loadDefaultPolicies))
    /\ UNCHANGED << store, nextId, initialised, now, registered, pendingWrite,
                    writer >>
    /\ UNCHANGED requestVars

RefreshNext ==
    \/ OnModuleInit
    \/ RefreshBegins
    \/ RefreshReads
    \/ RefreshAssigns
    \/ AddPolicy
    \/ Evaluate
    \/ CreateCommits
    \/ WriteReturns
    \/ Tick

RefreshSpec == Init /\ [][RefreshNext]_vars

\* the store as it stood when it held k policies (policies are only created
\* here, with ids in creation order)
StoreWhen(k) == [i \in 1..k |-> store[i]]

\* the list is whole: the complete conversion of the store's enabled
\* policies as they stood at some moment, in store order, or the fallback's
\* empty list, followed by policies registered since, each of them whole
FullyFormed(list) ==
    \E k \in 0..(nextId - 1), n \in 0..Len(registered) :
        /\ n <= Len(list)
        /\ \A j \in 1..n :
              list[Len(list) - n + j] = registered[Len(registered) - n + j]
        /\ LET base == SubSeq(list, 1, Len(list) - n)
           IN  \/ base = << >>
               \/ /\ IsEnabledSetOf(base, StoreWhen(k))
                  /\ \A i \in 1..Len(base) : base[i].id = i

\* a loadPolicies call has the list it will assign and has not assigned it
RefreshInFlight == loader # Idle /\ loader.pc = "assign"

\* C23: under every interleaving of evaluate with loadPolicies refreshes and
\* addPolicy calls, each evaluate decides against one fully-formed policy
\* list, the complete list before the change or the complete list after it,
\* never a partially populated one.
C23_EvaluateSeesWholeList ==
    Evaluated =>
        /\ FullyFormed(heap[policies])
        /\ last.decision = evaluate(heap[policies], last.context)

\* evaluate ran while a refresh held a new, longer list it had not assigned
\* yet, and decided against the old list
C23_Witness ==
    /\ Evaluated
    /\ RefreshInFlight
    /\ loader.returned
    /\ Len(heap[policies]) > 0
    /\ Len(heap[prevLoad.ref]) > Len(heap[policies])

\* ------------------------------------------------------------------------
\* addPolicy on any list the engine may hold (AppendSpec)
\* ------------------------------------------------------------------------
AppendNext ==
    \/ AddPolicy
    \/ EvaluateAny

AppendSpec == EvalInit /\ [][AppendNext]_vars

\* C24: addPolicy(p) appends p after all policies already in the engine's
\* list and leaves their order and content unchanged, so every context that
\* matched some policy before the call gets the same decision after it; only
\* contexts that fell through to the default deny can change.
C24_AddPolicyIsAdditive ==
    [][last'.op = "addPolicy" =>
          LET before == heap[policies]
              after == heap'[policies']
          IN  /\ Len(after) = Len(before) + 1
              /\ SubSeq(after, 1, Len(before)) = before
              /\ after[Len(after)] = registered'[Len(registered')]
              /\ \A context \in Contexts :
                    matchIndex(before, context) # 0 =>
                        evaluate(after, context) = evaluate(before, context)]_vars

\* a deny policy was added behind an allow policy, and a context both match
\* is still allowed by the earlier one
C24_Witness ==
    /\ last.op = "addPolicy"
    /\ Len(heap[policies]) >= 2
    /\ heap[policies][Len(heap[policies])].effect = "deny"
    /\ \E context \in Contexts :
          /\ WellFormed(context)
          /\ matchIndex(heap[policies], context) \in 1..(Len(heap[policies]) - 1)
          /\ checkConditions(heap[policies][Len(heap[policies])], context) = "true"
          /\ evaluate(heap[policies], context).effect = "allow"

\* ------------------------------------------------------------------------
\* Rejected policy writes (Spec)
\* ------------------------------------------------------------------------
\* the cache holds the same entry before and after the step: none, or the
\* same timestamp and the same list with the same content
SameCacheEntry ==
    IF cache = NoEntry THEN cache' = NoEntry
    ELSE /\ cache' # NoEntry
         /\ cache'.timestamp = cache.timestamp
         /\ heap'[cache'.policies] = heap[cache.policies]

\* the step added a row whose name a row of the same scope had already
AddedDuplicateName ==
    \E id \in DOMAIN store' \ DOMAIN store :
        \E other \in DOMAIN store :
            /\ store[other].name = store'[id].name
            /\ store[other].tenantId = store'[id].tenantId

\* C25: a rejected policy write leaves all state unchanged: create with a
\* name that already exists in the same tenant scope is rejected (conflict)
\* and update or delete of an id that does not exist is rejected
\* (not-found); in each case neither the store contents nor the cache entry
\* is modified. Every write step either is rejected and changes neither, or
\* succeeds and then has not added a second row of an existing name.
C25_RejectedWriteChangesNothing ==
    [][last'.op = "write" =>
          IF last'.ok
          THEN ~AddedDuplicateName
          ELSE /\ store' = store
               /\ nextId' = nextId
               /\ SameCacheEntry]_vars

\* a write was rejected while the store held a policy and the cache an entry
C25_Witness ==
    /\ last.op = "write"
    /\ ~last.ok
    /\ cache # NoEntry
    /\ Len(heap[cache.policies]) > 0
    /\ DOMAIN store # {}

\* ------------------------------------------------------------------------
\* loadEnabledPolicies against the clock (TtlSpec): time passes while the
\* store read is awaited. prevLoad holds, for the entry in the cache, when
\* the read behind it was started.
\* ------------------------------------------------------------------------
\* what a call observed: when it was made, when the read behind its list was
\* started and when that list was stored, whether the entry it found had
\* expired, and whether it replaced the entry
CallRecord(returned, readStore, calledAt, readStartedAt, storedAt, expired, replaced) ==
    [returned |-> returned, readStore |-> readStore, calledAt |-> calledAt,
     readStartedAt |-> readStartedAt, storedAt |-> storedAt,
     expired |-> expired, replaced |-> replaced]

\* loadEnabledPolicies up to its await: an entry inside its TTL is returned
\* at once, otherwise findMany is issued
LoadStarts ==
    /\ initialised
    /\ loader = Idle
    /\ IF cacheHit(cache, now)
       THEN /\ Commit(policies, cache, prevLoad,
                      [op |-> "loadEnabledPolicies", result |-> cache.policies,
                       call |-> CallRecord(TRUE, FALSE, now, prevLoad.at,
                                           cache.timestamp, FALSE, FALSE)],
                      heap)
            /\ UNCHANGED loader
       ELSE /\ loader' = [pc |-> "findMany", overlapped |-> FALSE,
                          startedAt |-> now, expired |-> cache # NoEntry]
            /\ Commit(policies, cache, prevLoad, Awaiting, heap)
    /\ UNCHANGED << store, nextId, initialised, now, registered, pendingWrite,
                    writer >>
    /\ UNCHANGED requestVars

\* findMany answers: it rejects and so does the call, or the rows are
\* converted, stored with timestamp Date.now() and returned
LoadStores ==
    /\ loader # Idle
    /\ loader.pc = "findMany"
    /\ loader' = Idle
    /\ \E fail \in BOOLEAN :
        IF fail
        THEN Commit(policies, cache, prevLoad,
                    [op |-> "loadEnabledPolicies",
                     call |-> CallRecord(FALSE, TRUE, loader.startedAt,
                                         loader.startedAt, now, loader.expired,
                                         FALSE)],
                    heap)
        ELSE Commit(policies,
                    [policies |-> NewRef(heap), timestamp |-> now],
                    [ref |-> NewRef(heap), at |-> loader.startedAt,
                     timestamp |-> now, invalidated |-> FALSE],
                    [op |-> "loadEnabledPolicies", result |-> NewRef(heap),
                     call |-> CallRecord(TRUE, TRUE, loader.startedAt,
                                         loader.startedAt, now, loader.expired,
                                         TRUE)],
                    Alloc(heap, convertedPolicies(store)))
    /\ UNCHANGED << store, nextId, initialised, now, registered, pendingWrite,
                    writer >>
    /\ UNCHANGED requestVars

TtlNext ==
    \/ OnModuleInit
    \/ LoadStarts
    \/ LoadStores
    \/ AddPolicy
    \/ Create
    \/ ReloadCache
    \/ Tick

TtlSpec == Init /\ [][TtlNext]_vars

\* a loadEnabledPolicies call has come to its end
CallEnded ==
    /\ last.op = "loadEnabledPolicies"
    /\ "call" \in DOMAIN last
    /\ "calledAt" \in DOMAIN last.call

\* C26 as stated: whenever loadEnabledPolicies returns a list, that list is
\* the result of a store read started less than cacheTTL before the call,
\* and a call made cacheTTL or more after the cached entry's timestamp
\* re-reads the store and replaces the entry.
C26_Original ==
    CallEnded =>
        /\ last.call.returned =>
              last.call.calledAt - last.call.readStartedAt < cacheTTL
        /\ last.call.expired => (last.call.readStore /\ last.call.replaced)

\* C26 as amended: whenever loadEnabledPolicies returns a list, it is the
\* list read by the call itself, or the list of the cache entry, stored
\* less than cacheTTL before the call (the read behind it may have started
\* earlier); a call made cacheTTL or more after the entry's timestamp
\* re-reads the store and, unless the read fails, replaces the entry.
C26_StalenessBoundedByEntryAge ==
    CallEnded =>
        /\ last.call.returned =>
              \/ /\ last.call.readStore
                 /\ last.call.readStartedAt = last.call.calledAt
                 /\ last.call.replaced
              \/ /\ ~last.call.readStore
                 /\ last.call.calledAt - last.call.storedAt < cacheTTL
                 /\ last.call.storedAt >= last.call.readStartedAt
                 /\ last.result = cache.policies
        /\ last.call.expired =>
              /\ last.call.readStore
              /\ last.call.returned =>
                    /\ last.call.replaced
                    /\ cache = [policies |-> last.result,
                                timestamp |-> last.call.storedAt]
                    /\ last.call.storedAt >= last.call.calledAt

\* a call was served from an entry stored less than cacheTTL before, whose
\* read had started cacheTTL before the call
C26_Witness ==
    /\ CallEnded
    /\ last.call.returned
    /\ ~last.call.readStore
    /\ Len(heap[last.result]) > 0
    /\ last.call.calledAt - last.call.storedAt < cacheTTL
    /\ last.call.calledAt - last.call.readStartedAt >= cacheTTL

\* ------------------------------------------------------------------------
\* The audit record and the resolved tenant (RequestSpec)
\* ------------------------------------------------------------------------
\* the request in the pipeline was audited and its record was written
AuditWritten == Audited /\ last.calls # << >> /\ last.persisted

\* C27: tenant resolution completes before the audit pipeline captures the
\* request: the tenantId of an audited request's record is the id of the
\* tenant TenantContextInterceptor resolved for that request (request.tenant
\* is set by that interceptor alone), and null exactly when it resolved none.
C27_AuditCarriesResolvedTenant ==
    AuditWritten =>
        /\ Len(auditLog) = 1
        /\ request.tenant # Undefined =>
              auditLog[1].tenantId = request.tenant.id
        /\ (auditLog[1].tenantId = Null) <=> (request.tenant = Undefined)

\* the record of an audited request carries the id of tenant acme, which
\* the interceptor had resolved
C27_Witness ==
    /\ AuditWritten
    /\ request.tenant # Undefined
    /\ request.tenant.id = Str(TenantA)
    /\ auditLog[1].tenantId = Str(TenantA)

\* C29: when an audited handler fails with error E, the caller of
\* AuditInterceptor receives E itself, after the fail record has been
\* attempted, whether or not persisting that record succeeds; and when an
\* audited handler succeeds, a failure to persist the success record never
\* turns the response into an error.
C29_HandlerOutcomeReachesCaller ==
    (Audited /\ last.calls # << >>) =>
        /\ last.handler = "error" =>
              (last.calls = << "fail" >> /\ last.response = "handlerError")
        /\ last.handler = "value" => last.response = "value"

\* ------------------------------------------------------------------------
\* PoliciesService.create calls that overlap (CreateRaceSpec): each call
\* runs its findFirst, is suspended, and the store takes the inserts of the
\* suspended calls in any order
\* ------------------------------------------------------------------------
\* CREATE UNIQUE INDEX "policies_name_tenantId_key" ON "policies"("name",
\* "tenantId"): the insert is refused when a row has the same name and the
\* same tenantId; rows whose tenantId is NULL never collide, NULLs being
\* distinct in a unique index
uniqueViolation(st, row) ==
    /\ row.tenantId # "null"
    /\ \E i \in DOMAIN st :
          st[i].name = row.name /\ st[i].tenantId = row.tenantId

\* the create calls suspended at await this.prisma.policy.create
Suspended == IF writer = Idle THEN << >> ELSE writer.calls

\* create up to its insert: the findFirst by name in the null scope (the
\* controller passes no tenantId), ConflictException when it finds a row,
\* else the insert is issued
CreateChecks ==
    \E dto \in CreateInputs :
        /\ initialised
        /\ Len(Suspended) < MaxOverlap
        /\ IF findFirstByName(store, dto.name, "null") # {}
           THEN Rejects
           ELSE /\ writer' = [pc |-> "create",
                              calls |-> Append(Suspended, dto)]
                /\ Commit(policies, cache, prevLoad, Awaiting, heap)
                /\ UNCHANGED << store, nextId, initialised, now, registered,
                                pendingWrite, loader >>
                /\ UNCHANGED requestVars

\* the store performs the insert of a suspended call: the row takes its
\* columns from the dto (no tenantId, so NULL); the call then clears the
\* cache and returns, or raises the store's error
CreateInserts ==
    \E n \in 1..Len(Suspended) :
        LET dto == Suspended[n]
            row == [id |-> nextId, name |-> dto.name, effect |-> dto.effect,
                    enabled |-> dto.enabled, tenantId |-> "null",
                    rules |-> dto.rules]
            rest == [i \in 1..(Len(Suspended) - 1) |->
                        IF i < n THEN Suspended[i] ELSE Suspended[i + 1]]
        IN  /\ nextId <= MaxCreates
            /\ writer' = IF Len(rest) = 0 THEN Idle
                         ELSE [pc |-> "create", calls |-> rest]
            /\ IF uniqueViolation(store, row)
               THEN /\ Commit(policies, cache, prevLoad,
                              [op |-> "write", ok |-> FALSE], heap)
                    /\ UNCHANGED << store, nextId >>
               ELSE /\ store' = [i \in DOMAIN store \cup {nextId} |->
                                    IF i = nextId THEN row ELSE store[i]]
                    /\ nextId' = nextId + 1
                    /\ Commit(policies, invalidateCache(cache), prevLoad,
                              [op |-> "write", ok |-> TRUE], heap)
            /\ UNCHANGED << initialised, now, registered, pendingWrite,
                            loader >>
            /\ UNCHANGED requestVars

CreateRaceNext ==
    \/ OnModuleInit
    \/ CreateChecks
    \/ CreateInserts
    \/ LoadEnabledPolicies
    \/ Tick

CreateRaceSpec == Init /\ [][CreateRaceNext]_vars

\* C28: after any interleaving of PoliciesService.create calls, the store
\* never contains two policies with the same name and the same tenant
\* scope, the global (null-tenant) scope included.
C28_NamesUniquePerScope ==
    \A i, j \in DOMAIN store :
        (i # j /\ store[i].tenantId = store[j].tenantId) =>
            store[i].name # store[j].name

====
